---- MODULE Spec2Model ----
(***************************************************************************)
(* Model of src/lambda_function.py: the TradingView -> Bybit webhook       *)
(* handler (lambda_handler) with the helpers it calls                      *)
(* (calculate_position_size, update_position_stops, execute_bybit_order,   *)
(* send_telegram_message).                                                 *)
(*                                                                         *)
(* Python values are records [t, n, s]: t is the type tag ("none", "num",  *)
(* "str", "list"), n the number and s the string.  A number is an integer  *)
(* count of 10^-5 units (1.0 is 100000), so that values below the four     *)
(* decimals of the "%.4f" formatting exist.  A string is a sequence of     *)
(* one-character strings.                                                  *)
(***************************************************************************)
EXTENDS Integers, Sequences, FiniteSets, TLC

\* ------------------------------------------------------------------------
\* Python values
\* ------------------------------------------------------------------------
Unit == 10 * 10000

None == [t |-> "none", n |-> 0, s |-> <<>>]
Num(x) == [t |-> "num", n |-> x, s |-> <<>>]
Str(x) == [t |-> "str", n |-> 0, s |-> x]
\* a non-empty JSON array: truthy, no .upper(), float() raises TypeError
List == [t |-> "list", n |-> 0, s |-> <<>>]

\* Python truth value (`if not x`, `x or y`)
Truthy(v) ==
  CASE v.t = "none" -> FALSE
    [] v.t = "num" -> v.n # 0
    [] v.t = "str" -> v.s # <<>>
    [] OTHER -> TRUE

\* Python `a or b`
Or(a, b) == IF Truthy(a) THEN a ELSE b

\* ------------------------------------------------------------------------
\* Strings
\* ------------------------------------------------------------------------
Lower == <<"a","b","c","d","e","f","g","h","i","j","k","l","m",
           "n","o","p","q","r","s","t","u","v","w","x","y","z">>
Upper == <<"A","B","C","D","E","F","G","H","I","J","K","L","M",
           "N","O","P","Q","R","S","T","U","V","W","X","Y","Z">>
Digits == <<"0","1","2","3","4","5","6","7","8","9">>

IndexIn(c, seq) ==
  IF \E i \in 1..Len(seq) : seq[i] = c
    THEN CHOOSE i \in 1..Len(seq) : seq[i] = c
    ELSE 0

UpperChar(c) == IF IndexIn(c, Lower) > 0 THEN Upper[IndexIn(c, Lower)] ELSE c

\* str.upper()
StrUpper(s) == [i \in 1..Len(s) |-> UpperChar(s[i])]

StartsWith(s, pat) ==
  /\ Len(pat) <= Len(s)
  /\ SubSeq(s, 1, Len(pat)) = pat

\* str.replace(pat, ""): left to right, non-overlapping, one scan
RECURSIVE Remove(_, _)
Remove(s, pat) ==
  IF s = <<>> THEN <<>>
  ELSE IF StartsWith(s, pat) THEN Remove(SubSeq(s, Len(pat) + 1, Len(s)), pat)
  ELSE <<Head(s)>> \o Remove(Tail(s), pat)

\* str.rstrip(c)
RECURSIVE RStrip(_, _)
RStrip(s, c) ==
  IF s # <<>> /\ s[Len(s)] = c THEN RStrip(SubSeq(s, 1, Len(s) - 1), c) ELSE s

\* mutant: the symbol is upper-cased after the removals
NormalizeSymbolUpperLast(s) == StrUpper(Remove(Remove(s, <<".", "P">>), <<"-">>))

\* symbol.upper().replace('.P', '').replace('-', '')
NormalizeSymbol(s) == Remove(Remove(StrUpper(s), <<".", "P">>), <<"-">>)

\* ------------------------------------------------------------------------
\* float(x) and f"{x:.4f}"
\* ------------------------------------------------------------------------
IsDigit(c) == IndexIn(c, Digits) > 0
DigitVal(c) == IndexIn(c, Digits) - 1

AllDigits(s) == \A i \in 1..Len(s) : IsDigit(s[i])

RECURSIVE DigitsVal(_)
DigitsVal(s) ==
  IF s = <<>> THEN 0 ELSE DigitsVal(SubSeq(s, 1, Len(s) - 1)) * 10 + DigitVal(s[Len(s)])

Pow10(k) == CASE k = 0 -> 1 [] k = 1 -> 10 [] k = 2 -> 100 [] k = 3 -> 1000
              [] k = 4 -> 10000 [] OTHER -> 100000

\* unsigned decimal text digits[.digits] (at most five decimals) -> units
UnsignedOk(s) ==
  LET dot == IndexIn(".", s)
      ip == IF dot = 0 THEN s ELSE SubSeq(s, 1, dot - 1)
      fp == IF dot = 0 THEN <<>> ELSE SubSeq(s, dot + 1, Len(s))
  IN /\ AllDigits(ip) /\ AllDigits(fp)
     /\ Len(ip) + Len(fp) > 0
     /\ Len(fp) <= 5

UnsignedVal(s) ==
  LET dot == IndexIn(".", s)
      ip == IF dot = 0 THEN s ELSE SubSeq(s, 1, dot - 1)
      fp == IF dot = 0 THEN <<>> ELSE SubSeq(s, dot + 1, Len(s))
  IN DigitsVal(ip) * Unit + DigitsVal(fp) * Pow10(5 - Len(fp))

\* float(str): [ok, n]; ok = FALSE is ValueError
ParseFloat(s) ==
  LET neg == s # <<>> /\ s[1] = "-"
      body == IF s # <<>> /\ s[1] \in {"-", "+"} THEN Tail(s) ELSE s
  IN IF UnsignedOk(body)
       THEN [ok |-> TRUE, n |-> IF neg THEN 0 - UnsignedVal(body) ELSE UnsignedVal(body)]
       ELSE [ok |-> FALSE, n |-> 0]

\* float(v): ok = FALSE is ValueError (bad text) or TypeError (None, list)
Float(v) ==
  CASE v.t = "num" -> [ok |-> TRUE, n |-> v.n]
    [] v.t = "str" -> ParseFloat(v.s)
    [] OTHER -> [ok |-> FALSE, n |-> 0]

Abs(x) == IF x < 0 THEN 0 - x ELSE x

\* |n| rounded to four decimals, in 10^-4 units (ties to even)
Round4(n) ==
  LET q == Abs(n) \div 10
      r == Abs(n) % 10
  IN IF r > 5 \/ (r = 5 /\ q % 2 = 1) THEN q + 1 ELSE q

RECURSIVE IntDigits(_)
IntDigits(k) ==
  IF k < 10 THEN <<Digits[k + 1]>> ELSE IntDigits(k \div 10) \o <<Digits[(k % 10) + 1]>>

\* f"{x:.4f}"
Fixed4(n) ==
  LET m == Round4(n)
      f == m % 10000
  IN (IF n < 0 THEN <<"-">> ELSE <<>>)
       \o IntDigits(m \div 10000) \o <<".">>
       \o <<Digits[(f \div 1000) + 1], Digits[((f \div 100) % 10) + 1],
            Digits[((f \div 10) % 10) + 1], Digits[(f % 10) + 1]>>

\* mutant: the zeros and the point are stripped as one set of characters
FormatDecimalStripSet(n) ==
  LET RECURSIVE Strip(_)
      Strip(s) == IF s # <<>> /\ s[Len(s)] \in {"0", "."}
                    THEN Strip(SubSeq(s, 1, Len(s) - 1)) ELSE s
  IN Strip(Fixed4(n))

\* f"{x:.4f}".rstrip('0').rstrip('.')
FormatDecimal(n) == RStrip(RStrip(Fixed4(n), "0"), ".")

\* ------------------------------------------------------------------------
\* The webhook payload
\* ------------------------------------------------------------------------
ActionKeys == <<"action", "Action", "ACTION">>
SymbolKeys == <<"symbol", "Symbol", "SYMBOL">>
QtyKeys == <<"qty", "Qty", "QTY", "quantity">>
PriceKeys == <<"price", "Price", "entry">>
SlKeys == <<"sl", "SL", "stopLoss">>
TpKeys == <<"tp", "TP", "takeProfit">>
TsKeys == <<"trailing_stop", "trailingStop", "ts">>

Range(seq) == {seq[i] : i \in 1..Len(seq)}

Keys == Range(ActionKeys) \cup Range(SymbolKeys) \cup Range(QtyKeys) \cup Range(PriceKeys)
          \cup Range(SlKeys) \cup Range(TpKeys) \cup Range(TsKeys)

\* a JSON object: key -> value, None for a key that is not there (dict.get)
EmptyMap == [k \in Keys |-> None]

IsEmptyMap(m) == \A k \in Keys : m[k] = None

\* mutant: only the first spelling is read
ExtractFirstKeyOnly(body, keys) == body[keys[1]]

\* body.get(k1) or body.get(k2) or ...
RECURSIVE Extract(_, _)
Extract(body, keys) ==
  IF Len(keys) = 1 THEN body[keys[1]]
  ELSE Or(body[keys[1]], Extract(body, Tail(keys)))

\* `float(x) if x else None` under `except (ValueError, TypeError): None`
OptFloat(v) == IF Truthy(v) /\ Float(v).ok THEN Num(Float(v).n) ELSE None

\* `quantity = float(qty)` when qty is truthy and parses (lines 744-750)
GivenQuantity(q) == OptFloat(q)

\* action.upper() == "UPDATE"
\* mutant: the action is compared as it is spelled
IsUpdateExact(a) == a.t = "str" /\ a.s = <<"U", "P", "D", "A", "T", "E">>

IsUpdate(a) == a.t = "str" /\ StrUpper(a.s) = <<"U", "P", "D", "A", "T", "E">>

\* ------------------------------------------------------------------------
\* Responses and results
\* ------------------------------------------------------------------------
\* mutant: another code is taken for "not modified"
OtherCode == 34040 + 1

UNCHANGED_CODE == 34040

NA == Str(<<"N", "/", "A">>)

NoResponse ==
  [statusCode |-> 0, success |-> FALSE, error |-> "", error_code |-> None,
   action |-> None, quantity |-> None, order_id |-> None, fill_price |-> None,
   stop_loss |-> None, take_profit |-> None, trailing_stop |-> None]

ErrorResponse(status, msg, code) ==
  [NoResponse EXCEPT !.statusCode = status, !.error = msg, !.error_code = code]

NoResult ==
  [success |-> FALSE, error |-> "", error_code |-> None, order_id |-> None,
   fill_price |-> None, warning |-> ""]

NoCall ==
  [op |-> "", symbol |-> <<>>, side |-> "", qty |-> <<>>, keys |-> {},
   stopLoss |-> <<>>, takeProfit |-> <<>>, trailingStop |-> <<>>,
   raises |-> FALSE, retCode |-> 0, result |-> <<>>]

\* ------------------------------------------------------------------------
\* State
\* ------------------------------------------------------------------------
VARIABLES
  env_ok,          \* validate_environment_variables()
  event,           \* the Lambda event: [kind, body, top]
  pc,              \* position of lambda_handler
  telegram_sent,   \* the "already notified" flag
  action, symbol, qty, price, stop_loss, take_profit, trailing_stop,
  quantity, sl_price, tp_price, ts_price,
  position_size,   \* calculate_position_size: the raw quantity
  update_result, order_result,
  pending,         \* the response the handler is about to return
  title,           \* the notification the current path sends
  failures,        \* exceptions raised inside the handler so far
  calls,           \* exchange calls made, in order
  telegram,        \* send_telegram_message calls made, in order
  response         \* what lambda_handler returned

vars ==
  <<env_ok, event, pc, telegram_sent, action, symbol, qty, price, stop_loss,
    take_profit, trailing_stop, quantity, sl_price, tp_price, ts_price,
    position_size, update_result, order_result, pending, title, failures,
    calls, telegram, response>>

fields == <<action, symbol, qty, price, stop_loss, take_profit, trailing_stop>>
floats == <<quantity, sl_price, tp_price, ts_price>>

\* ------------------------------------------------------------------------
\* Requests and the answers of the outside world
\* ------------------------------------------------------------------------
s_buy == <<"b", "u", "y">>
s_SELL == <<"S", "E", "L", "L">>
s_Long == <<"L", "o", "n", "g">>
s_short == <<"s", "h", "o", "r", "t">>
s_Update == <<"U", "p", "d", "a", "t", "e">>
s_hold == <<"h", "o", "l", "d">>
s_abc == <<"a", "b", "c">>
s_sym == <<"b", "t", "c", "-", "u", ".", "p">>

ActionValues ==
  {None, Num(5), Str(s_buy), Str(s_SELL), Str(s_Long), Str(s_short), Str(s_Update),
   Str(s_hold)}
SymbolValues == {None, Str(s_sym), List}
QtyValues == {None, Num(0), Str(s_abc), Num(0 - 50000), Num(4), Str(<<"0", ".", "5">>)}
PriceValues == {None, Str(s_abc), List, Num(0 - 200000), Num(200000)}
StopValues == {None, Str(s_abc), Num(150000)}

\* the payload {action, symbol, qty, price, sl, tp, trailing_stop}
Payload(a, sy, q, p, sl, tp, ts) ==
  [k \in Keys |->
     CASE k = "action" -> a
       [] k = "symbol" -> sy
       [] k = "qty" -> q
       [] k = "price" -> p
       [] k = "sl" -> sl
       [] k = "tp" -> tp
       [] k = "trailing_stop" -> ts
       [] OTHER -> None]

\* stop fields: the ones that carry no number are all absent or all
\* unparsable; and a stop loss sent as the text "0"
StopTriples ==
  {st \in StopValues \X StopValues \X StopValues :
     ~(\E i \in 1..3 : st[i] = None) \/ ~(\E i \in 1..3 : st[i] = Str(s_abc))}
    \cup {<<Str(<<"0">>), tp, None>> : tp \in {None, Num(150000)}}

\* The requests drawn in Init.  An update request carries no qty and no price
\* (the handler's docstring); a request that is sized from the balance is a
\* "buy" with at most a stop loss; the quantity below the fourth decimal
\* comes with no stops.
InScope(a, sy, q, p, st) ==
  /\ IsUpdate(a) => q = None /\ p = None
  /\ ~IsUpdate(a) /\ (GivenQuantity(q) = None \/ GivenQuantity(q).n <= 0)
       => (a \in {Str(s_SELL), Str(s_Long), Str(s_short), Str(s_hold)} => ~Truthy(st[1]))
          /\ st[2] = None /\ st[3] = None
  /\ q = Num(4) => st = <<None, None, None>>
  /\ ~Truthy(a) \/ a.t # "str" \/ sy # Str(s_sym) => st[2] = st[3]

Requests ==
  {r \in ActionValues \X SymbolValues \X QtyValues \X PriceValues \X StopTriples :
     InScope(r[1], r[2], r[3], r[4], r[5])}

Payloads == {Payload(r[1], r[2], r[3], r[4], r[5][1], r[5][2], r[5][3]) : r \in Requests}

\* the same fields under the last spelling of each priority list
AltPayload(a, sy, q, p, sl, tp, ts) ==
  [k \in Keys |->
     CASE k = "ACTION" -> a
       [] k = "SYMBOL" -> sy
       [] k = "quantity" -> q
       [] k = "entry" -> p
       [] k = "stopLoss" -> sl
       [] k = "takeProfit" -> tp
       [] k = "ts" -> ts
       [] OTHER -> None]

\* the requests that also arrive under the other spelling, or as the event itself
SmallRequests ==
  {r \in Requests : r[3] \in {None, Str(<<"0", ".", "5">>)} /\ r[4] = None
                      /\ r[5][2] = r[5][1]}

AltPayloads ==
  {AltPayload(r[1], r[2], r[3], r[4], r[5][1], r[5][2], r[5][3]) : r \in SmallRequests}

DirectPayloads ==
  {Payload(r[1], r[2], r[3], r[4], r[5][1], r[5][2], r[5][3]) :
     r \in {x \in SmallRequests : x[5][3] = None}}

\* event['body'] is JSON text of an object, text that is not JSON, JSON text of
\* an array, or there is no 'body' and the event itself is the payload
Events ==
  {[kind |-> "json", body |-> b, top |-> EmptyMap] : b \in Payloads \cup AltPayloads}
    \cup {[kind |-> "direct", body |-> EmptyMap, top |-> b] : b \in DirectPayloads}
    \cup {[kind |-> k, body |-> EmptyMap, top |-> EmptyMap] : k \in {"bad_json", "json_array"}}

RejectCodes == {10001}
Raise == [raises |-> TRUE, retCode |-> 0]
Ret(code) == [raises |-> FALSE, retCode |-> code]

Coin(name, bal) == [coin |-> name, walletBalance |-> bal]

\* get_wallet_balance: result.list, accounts of coins
WalletLists ==
  {<<>>,
   <<<<Coin("BTC", Num(100000))>>>>,
   <<<<Coin("USDT", Num(0))>>>>,
   <<<<Coin("USDT", Num(0 - 100000))>>>>,
   <<<<Coin("USDT", Str(<<>>))>>>>,
   <<<<Coin("USDT", Num(500000))>>>>,
   <<<<Coin("USDT", Num(0))>>, <<Coin("BTC", Num(1)), Coin("USDT", Num(1000))>>>>}

WalletAnswers ==
  {[raises |-> TRUE, retCode |-> 0, list |-> <<>>]}
    \cup {[raises |-> FALSE, retCode |-> c, list |-> <<>>] : c \in RejectCodes}
    \cup {[raises |-> FALSE, retCode |-> 0, list |-> l] : l \in WalletLists}

Lot(lo, hi, step) == [minOrderQty |-> lo, maxOrderQty |-> hi, qtyStep |-> step]

\* get_instruments_info: result.list[0].lotSizeFilter, or no instrument
LotFilters ==
  {Lot(Num(100), Num(10000000), Num(100)),
   Lot(Num(1000), Num(2000), Num(1000)),
   Lot(Num(500), Num(10000000), Num(1000)),
   Lot(None, None, None),
   Lot(Num(0), Num(10000000), Num(1000)),
   Lot(Num(0), Num(10000000), Num(0))}

InstrumentAnswers ==
  {[raises |-> TRUE, retCode |-> 0, list |-> <<>>]}
    \cup {[raises |-> FALSE, retCode |-> c, list |-> <<>>] : c \in RejectCodes}
    \cup {[raises |-> FALSE, retCode |-> 0, list |-> <<>>]}
    \cup {[raises |-> FALSE, retCode |-> 0, list |-> <<f>>] : f \in LotFilters}

OrderAnswers == {Raise} \cup {Ret(c) : c \in RejectCodes \cup {0}}
StopAnswers == {Raise} \cup {Ret(c) : c \in RejectCodes \cup {0, 34040}}

ExecutionAnswers ==
  {[raises |-> TRUE, retCode |-> 0, list |-> <<>>]}
    \cup {[raises |-> FALSE, retCode |-> c, list |-> <<>>] : c \in RejectCodes}
    \cup {[raises |-> FALSE, retCode |-> 0, list |-> l] : l \in {<<>>, <<Num(210000)>>}}

\* the handler is entered: nothing extracted, nothing called, nothing sent
Entered ==
  /\ pc = "start"
  /\ telegram_sent = FALSE
  /\ action = None /\ symbol = None /\ qty = None /\ price = None
  /\ stop_loss = None /\ take_profit = None /\ trailing_stop = None
  /\ quantity = None /\ sl_price = None /\ tp_price = None /\ ts_price = None
  /\ position_size = None
  /\ update_result = NoResult /\ order_result = NoResult
  /\ pending = NoResponse
  /\ title = ""
  /\ failures = 0
  /\ calls = <<>>
  /\ telegram = <<>>
  /\ response = NoResponse

Init ==
  /\ env_ok \in BOOLEAN
  /\ event \in Events
  /\ Entered

\* ------------------------------------------------------------------------
\* lambda_handler: from the request to the first outbound call
\* ------------------------------------------------------------------------
MSG_ENV == "Missing required environment variables"
MSG_ACTION == "Missing required field: action"
MSG_SYMBOL == "Missing required field: symbol"
MSG_JSON == "Invalid JSON"
MSG_INTERNAL == "Internal server error"
MSG_CLIENT == "Failed to initialize Bybit client"
MSG_NO_FIELDS == "No stop loss, take profit, or trailing stop provided for update"
MSG_UPDATE_EXC == "Exception during position update"
MSG_NO_PRICE == "Cannot calculate position size: price is required when qty is not provided"
MSG_SIZE == "Failed to calculate position size"
MSG_PRICE == "Invalid price value"
MSG_RET == "retMsg"
MSG_EXC == "str(e)"

\* the handler goes on to the notification and the return with response r
Finish(r, t) ==
  /\ pending' = r
  /\ title' = t
  /\ pc' = "notify"

\* mutant: the symbol check is left out
MissingFieldActionOnly(a, sy) == IF ~Truthy(a) THEN MSG_ACTION ELSE ""

\* lines 573-600: the required field that is missing, "" when none is
MissingField(a, sy) ==
  IF ~Truthy(a) THEN MSG_ACTION
  ELSE IF ~Truthy(sy) THEN MSG_SYMBOL
  ELSE ""

\* the body the fields are read from (lines 553-560)
Body(ev) == IF ev.kind = "json" /\ ~IsEmptyMap(ev.body) THEN ev.body ELSE ev.top

ReceiveRequest ==
  /\ pc = "start"
  /\ UNCHANGED <<env_ok, event, telegram_sent, floats, position_size, update_result,
                 order_result, calls, telegram>>
  /\ IF ~env_ok
       THEN /\ response' = ErrorResponse(500, MSG_ENV, None)
            /\ pc' = "done"
            /\ UNCHANGED <<fields, pending, title, failures>>
     ELSE IF event.kind = "bad_json"
       THEN /\ Finish(ErrorResponse(400, MSG_JSON, None), "JSON Parse Error")
            /\ failures' = failures + 1
            /\ UNCHANGED <<fields, response>>
     ELSE IF event.kind = "json_array"
       THEN /\ Finish(ErrorResponse(500, MSG_INTERNAL, None), "Unexpected Lambda Error")
            /\ failures' = failures + 1
            /\ UNCHANGED <<fields, response>>
     ELSE LET body == Body(event)
              sy == Extract(body, SymbolKeys)
              a == Extract(body, ActionKeys)
          IN /\ action' = a
             /\ qty' = Extract(body, QtyKeys)
             /\ price' = Extract(body, PriceKeys)
             /\ stop_loss' = Extract(body, SlKeys)
             /\ take_profit' = Extract(body, TpKeys)
             /\ trailing_stop' = Extract(body, TsKeys)
             /\ response' = response
             /\ IF MissingField(a, sy) # ""
                  THEN /\ Finish(ErrorResponse(400, MissingField(a, sy), None),
                                 "Webhook Error")
                       /\ symbol' = sy
                       /\ failures' = failures
                ELSE IF sy.t # "str"
                  THEN /\ Finish(ErrorResponse(500, MSG_INTERNAL, None),
                                 "Unexpected Lambda Error")
                       /\ symbol' = sy
                       /\ failures' = failures + 1
                ELSE /\ symbol' = Str(NormalizeSymbol(sy.s))
                     /\ pc' = "init_client"
                     /\ UNCHANGED <<pending, title, failures>>

\* HTTP(testnet=..., api_key=..., api_secret=...)
InitClient ==
  /\ pc = "init_client"
  /\ UNCHANGED <<env_ok, event, telegram_sent, fields, floats, position_size,
                 update_result, order_result, failures, calls, telegram, response>>
  /\ \E ok \in BOOLEAN :
       IF ok
         THEN pc' = "dispatch" /\ UNCHANGED <<pending, title>>
         ELSE Finish(ErrorResponse(500, MSG_CLIENT, None),
                     "Bybit Client Initialization Failed")

\* action.upper() of a value that is no string: AttributeError, caught at 921
ActionNotString ==
  /\ pc = "dispatch"
  /\ action.t # "str"
  /\ Finish(ErrorResponse(500, MSG_INTERNAL, None), "Unexpected Lambda Error")
  /\ failures' = failures + 1
  /\ UNCHANGED <<env_ok, event, telegram_sent, fields, floats, position_size,
                 update_result, order_result, calls, telegram, response>>

\* mutant: the fields that were not supplied are sent as "0" (cleared)
StopCallClearing(sym, ks, sl, tp, ts, ans) ==
  [NoCall EXCEPT !.raises = ans.raises, !.retCode = ans.retCode,
     !.op = "set_trading_stop", !.symbol = sym,
     !.keys = {"stopLoss", "takeProfit", "trailingStop"},
     !.stopLoss = FormatDecimal(sl.n),
     !.takeProfit = FormatDecimal(tp.n),
     !.trailingStop = FormatDecimal(ts.n)]

StopCall(sym, ks, sl, tp, ts, ans) ==
  [NoCall EXCEPT !.raises = ans.raises, !.retCode = ans.retCode, !.op = "set_trading_stop", !.symbol = sym, !.keys = ks,
     !.stopLoss = IF "stopLoss" \in ks THEN FormatDecimal(sl.n) ELSE <<>>,
     !.takeProfit = IF "takeProfit" \in ks THEN FormatDecimal(tp.n) ELSE <<>>,
     !.trailingStop = IF "trailingStop" \in ks THEN FormatDecimal(ts.n) ELSE <<>>]

\* mutant: the three fields always go into the call
UpdateKeysAlways(sl, tp, ts) == {"stopLoss", "takeProfit", "trailingStop"}

\* update_position_stops: a field goes into the call when it `is not None`
UpdateKeys(sl, tp, ts) ==
  {k \in {"stopLoss", "takeProfit", "trailingStop"} :
     \/ k = "stopLoss" /\ sl # None
     \/ k = "takeProfit" /\ tp # None
     \/ k = "trailingStop" /\ ts # None}

\* mutant: the trailing stop is left out of the order's stop call
OrderKeysNoTrailing(sl, tp, ts) ==
  {k \in {"stopLoss", "takeProfit"} :
     \/ k = "stopLoss" /\ Truthy(sl)
     \/ k = "takeProfit" /\ Truthy(tp)}

\* execute_bybit_order: a field goes into the call when it is truthy
OrderKeys(sl, tp, ts) ==
  {k \in {"stopLoss", "takeProfit", "trailingStop"} :
     \/ k = "stopLoss" /\ Truthy(sl)
     \/ k = "takeProfit" /\ Truthy(tp)
     \/ k = "trailingStop" /\ Truthy(ts)}

UpdateFailed(msg, code) ==
  Finish(ErrorResponse(500, msg, code), "Position Update Failed")

\* action UPDATE: the fields to floats, update_position_stops up to its call
BeginUpdate ==
  /\ pc = "dispatch"
  /\ IsUpdate(action)
  /\ sl_price' = OptFloat(stop_loss)
  /\ tp_price' = OptFloat(take_profit)
  /\ ts_price' = OptFloat(trailing_stop)
  /\ IF UpdateKeys(sl_price', tp_price', ts_price') = {}
       THEN /\ update_result' = [NoResult EXCEPT !.error = MSG_NO_FIELDS]
            /\ UpdateFailed(MSG_NO_FIELDS, NA)
       ELSE /\ pc' = "update_stops"
            /\ UNCHANGED <<update_result, pending, title>>
  /\ UNCHANGED <<env_ok, event, telegram_sent, fields, quantity, position_size,
                 order_result, failures, calls, telegram, response>>

UpdateResponse ==
  [NoResponse EXCEPT !.statusCode = 200, !.success = TRUE, !.action = Str(<<"u","p","d","a","t","e">>),
     !.stop_loss = sl_price, !.take_profit = tp_price, !.trailing_stop = ts_price]

W_UPDATE_UNCHANGED == "Position stops not modified - values may already be set"

\* update_position_stops: the set_trading_stop call and what the handler makes of it
SetTradingStopUpdate ==
  /\ pc = "update_stops"
  /\ \E ans \in StopAnswers :
       /\ calls' = Append(calls, StopCall(symbol.s, UpdateKeys(sl_price, tp_price, ts_price),
                                          sl_price, tp_price, ts_price, ans))
       /\ IF ans.raises
            THEN /\ update_result' = [NoResult EXCEPT !.error = MSG_EXC]
                 /\ UpdateFailed(MSG_EXC, NA)
          ELSE IF ans.retCode = 0
            THEN /\ update_result' = [NoResult EXCEPT !.success = TRUE]
                 /\ Finish(UpdateResponse, "Trade UPDATE")
          ELSE IF ans.retCode = UNCHANGED_CODE
            THEN /\ update_result' = [NoResult EXCEPT !.success = TRUE,
                                                      !.warning = W_UPDATE_UNCHANGED]
                 /\ Finish(UpdateResponse, "Trade UPDATE")
          ELSE /\ update_result' = [NoResult EXCEPT !.error = MSG_RET,
                                                    !.error_code = Num(ans.retCode)]
               /\ UpdateFailed(MSG_RET, Num(ans.retCode))
  /\ UNCHANGED <<env_ok, event, telegram_sent, fields, floats, position_size,
                 order_result, failures, telegram, response>>

\* ------------------------------------------------------------------------
\* Buy / Sell: quantity, calculate_position_size, execute_bybit_order
\* ------------------------------------------------------------------------
\* mutant: a negative quantity is taken as supplied
NoQuantityZeroOnly(q) == q = None \/ q.n = 0

\* mutant: only a missing quantity is looked for
NoQuantityNoneOnly(q) == q = None

\* `not quantity or quantity <= 0`
NoQuantity(q) == q = None \/ q.n <= 0

\* mutant: the price is not looked at before sizing
PriceErrorNever(p) == ""

\* mutant: only the presence of the price is checked, float() errors pass
PriceErrorPresenceOnly(p) == IF ~Truthy(p) THEN MSG_NO_PRICE ELSE ""

\* lines 753-765 and 788-800: what is wrong with the price, "" when nothing
PriceError(p) ==
  IF ~Truthy(p) THEN MSG_NO_PRICE
  ELSE IF ~Float(p).ok THEN MSG_PRICE
  ELSE ""

SizingFailed ==
  Finish(ErrorResponse(500, MSG_SIZE, None), "Position Size Calculation Failed")

BeginOrder ==
  /\ pc = "dispatch"
  /\ action.t = "str"
  /\ ~IsUpdate(action)
  /\ quantity' = GivenQuantity(qty)
  /\ IF NoQuantity(quantity')
       THEN /\ UNCHANGED <<sl_price, tp_price, ts_price>>
            /\ IF PriceError(price) # ""
                 THEN Finish(ErrorResponse(400, PriceError(price), None), "Error")
                 ELSE pc' = "wallet" /\ UNCHANGED <<pending, title>>
       ELSE /\ sl_price' = OptFloat(stop_loss)
            /\ tp_price' = OptFloat(take_profit)
            /\ ts_price' = OptFloat(trailing_stop)
            /\ pc' = "place_order"
            /\ UNCHANGED <<pending, title>>
  /\ UNCHANGED <<env_ok, event, telegram_sent, fields, position_size, update_result,
                 order_result, failures, calls, telegram, response>>

risk_percent == 2

\* a / b rounded to the nearest integer, ties to even (b # 0)
RoundDiv(a, b) ==
  LET q == Abs(a) \div Abs(b)
      r == Abs(a) % Abs(b)
      m == IF 2 * r > Abs(b) \/ (2 * r = Abs(b) /\ q % 2 = 1) THEN q + 1 ELSE q
  IN IF (a < 0) = (b < 0) THEN m ELSE 0 - m

FirstUsdt(coins) ==
  IF \E i \in 1..Len(coins) : coins[i].coin = "USDT"
    THEN CHOOSE i \in 1..Len(coins) :
           /\ coins[i].coin = "USDT"
           /\ \A j \in 1..(i - 1) : coins[j].coin # "USDT"
    ELSE 0

\* the loop of lines 181-188: [ok, n], ok = FALSE when float() raises
RECURSIVE TotalEquity(_, _)
TotalEquity(accounts, total) ==
  IF accounts = <<>> THEN [ok |-> TRUE, n |-> total]
  ELSE LET i == FirstUsdt(Head(accounts))
           f == Float(Head(accounts)[i].walletBalance)
       IN IF i = 0 THEN TotalEquity(Tail(accounts), total)
          ELSE IF ~f.ok THEN [ok |-> FALSE, n |-> 0]
          ELSE IF f.n > 0 THEN [ok |-> TRUE, n |-> f.n]
          ELSE TotalEquity(Tail(accounts), f.n)

\* mutant: the balance is not checked for being positive
RawSizeAnyEquity(ans, entry) ==
  IF ans.raises \/ ans.retCode # 0 \/ ans.list = <<>> THEN None
  ELSE LET eq == TotalEquity(ans.list, 0)
       IN IF ~eq.ok \/ entry = 0 THEN None
          ELSE Num(RoundDiv(eq.n * risk_percent * (Unit \div 100), entry))

\* lines 159-198: the raw position size, or None
RawSize(ans, entry) ==
  IF ans.raises \/ ans.retCode # 0 \/ ans.list = <<>> THEN None
  ELSE LET eq == TotalEquity(ans.list, 0)
       IN IF ~eq.ok \/ eq.n <= 0 \/ entry = 0 THEN None
          ELSE Num(RoundDiv(eq.n * risk_percent * (Unit \div 100), entry))

GetWalletBalanceOf(answers) ==
  /\ pc = "wallet"
  /\ \E ans \in answers :
       /\ calls' = Append(calls, [NoCall EXCEPT !.op = "get_wallet_balance",
                                     !.raises = ans.raises, !.retCode = ans.retCode,
                                     !.result = ans.list])
       /\ position_size' = RawSize(ans, Float(price).n)
       /\ IF position_size' = None
            THEN SizingFailed /\ quantity' = None
            ELSE pc' = "instruments" /\ UNCHANGED <<quantity, pending, title>>
  /\ UNCHANGED <<env_ok, event, telegram_sent, fields, sl_price, tp_price, ts_price,
                 update_result, order_result, failures, telegram, response>>

GetWalletBalance == GetWalletBalanceOf(WalletAnswers)

Default(v, d) == IF v = None THEN d ELSE v

Min(a, b) == IF a < b THEN a ELSE b
Max(a, b) == IF a > b THEN a ELSE b

\* mutant: the quantity is clamped but not rounded to the step
ConstrainedNoRounding(raw, f) ==
  LET lo == Float(Default(f.minOrderQty, Num(0)))
      hi == Float(Default(f.maxOrderQty, Num(0)))
      st == Float(Default(f.qtyStep, Num(Unit \div 1000)))
      capped == IF f.maxOrderQty = None THEN raw ELSE Min(raw, hi.n)
  IN IF ~lo.ok \/ ~hi.ok \/ ~st.ok \/ st.n = 0 THEN raw
     ELSE Max(lo.n, capped)

\* lines 212-229 with the constraints f; maxOrderQty defaults to infinity
Constrained(raw, f) ==
  LET lo == Float(Default(f.minOrderQty, Num(0)))
      hi == Float(Default(f.maxOrderQty, Num(0)))
      st == Float(Default(f.qtyStep, Num(Unit \div 1000)))
      stepped == RoundDiv(raw, st.n) * st.n
      capped == IF f.maxOrderQty = None THEN stepped ELSE Min(stepped, hi.n)
  IN IF ~lo.ok \/ ~hi.ok \/ ~st.ok \/ st.n = 0 THEN raw
     ELSE Max(lo.n, capped)

\* mutant: without constraints the quantity is rounded to the default step
SizedQuantityDefaultStep(raw, ans) ==
  IF ans.raises \/ ans.retCode # 0 \/ ans.list = <<>>
    THEN RoundDiv(raw, Unit \div 1000) * (Unit \div 1000)
  ELSE Constrained(raw, ans.list[1])

\* lines 200-237: the quantity calculate_position_size returns
SizedQuantity(raw, ans) ==
  IF ans.raises \/ ans.retCode # 0 \/ ans.list = <<>> THEN raw
  ELSE Constrained(raw, ans.list[1])

GetInstrumentsInfoOf(answers) ==
  /\ pc = "instruments"
  /\ \E ans \in answers :
       /\ calls' = Append(calls, [NoCall EXCEPT !.op = "get_instruments_info",
                                                !.symbol = symbol.s,
                                                !.raises = ans.raises,
                                                !.retCode = ans.retCode,
                                                !.result = ans.list])
       /\ quantity' = Num(SizedQuantity(position_size.n, ans))
       /\ IF NoQuantity(quantity')
            THEN SizingFailed /\ UNCHANGED <<sl_price, tp_price, ts_price>>
            ELSE /\ sl_price' = OptFloat(stop_loss)
                 /\ tp_price' = OptFloat(take_profit)
                 /\ ts_price' = OptFloat(trailing_stop)
                 /\ pc' = "place_order"
                 /\ UNCHANGED <<pending, title>>
  /\ UNCHANGED <<env_ok, event, telegram_sent, fields, position_size, update_result,
                 order_result, failures, telegram, response>>

GetInstrumentsInfo == GetInstrumentsInfoOf(InstrumentAnswers)

\* "Buy" if action.upper() in ["BUY", "LONG"] else "Sell"
Side(a) ==
  IF StrUpper(a) \in {<<"B", "U", "Y">>, <<"L", "O", "N", "G">>} THEN "Buy" ELSE "Sell"

OrderFailed(msg, code) ==
  Finish(ErrorResponse(500, msg, code), "Order Execution Failed")

ORDER_ID == Str(<<"i", "d">>)

\* mutant: only a negative result code counts as a rejection
OrderRejectedNegative(ans) == ans.retCode < 0

\* mutant: the retCode of place_order is not looked at
OrderRejectedNever(ans) == FALSE

\* a non-zero retCode of place_order ends execute_bybit_order (lines 394-405)
OrderRejected(ans) == ans.retCode # 0

PlaceOrder ==
  /\ pc = "place_order"
  /\ \E ans \in OrderAnswers :
       /\ calls' = Append(calls, [NoCall EXCEPT !.op = "place_order", !.symbol = symbol.s,
                                    !.side = Side(action.s),
                                    !.qty = FormatDecimal(quantity.n),
                                    !.raises = ans.raises, !.retCode = ans.retCode])
       /\ IF ans.raises
            THEN /\ order_result' = [NoResult EXCEPT !.error = MSG_EXC]
                 /\ OrderFailed(MSG_EXC, NA)
          ELSE IF OrderRejected(ans)
            THEN /\ order_result' = [NoResult EXCEPT !.error = MSG_RET,
                                                     !.error_code = Num(ans.retCode)]
                 /\ OrderFailed(MSG_RET, Num(ans.retCode))
          ELSE /\ order_result' = [NoResult EXCEPT !.success = TRUE, !.order_id = ORDER_ID]
               /\ pc' = IF OrderKeys(sl_price, tp_price, ts_price) # {}
                          THEN "order_stops" ELSE "executions"
               /\ UNCHANGED <<pending, title>>
  /\ UNCHANGED <<env_ok, event, telegram_sent, fields, floats, position_size,
                 update_result, failures, telegram, response>>

W_ORDER_UNCHANGED == "SL/TP/TS not modified (34040) - values may already be set"
W_ORDER_FAILED == "SL/TP/TS setup failed"
W_ORDER_EXC == "SL/TP/TS setup exception"

\* mutant: an exception of the stop call is swallowed without a warning
StopWarningExceptionSilent(ans) ==
  IF ans.raises THEN ""
  ELSE IF ans.retCode = 0 THEN ""
  ELSE IF ans.retCode = UNCHANGED_CODE THEN W_ORDER_UNCHANGED
  ELSE W_ORDER_FAILED

\* mutant: 34040 is not told apart from the other non-zero codes
StopWarningNoUnchanged(ans) ==
  IF ans.raises THEN W_ORDER_EXC
  ELSE IF ans.retCode = 0 THEN ""
  ELSE W_ORDER_FAILED

\* lines 446-463: sl_tp_warning after the stop call, "" for None
StopWarning(ans) ==
  IF ans.raises THEN W_ORDER_EXC
  ELSE IF ans.retCode = 0 THEN ""
  ELSE IF ans.retCode = UNCHANGED_CODE THEN W_ORDER_UNCHANGED
  ELSE W_ORDER_FAILED

\* lines 418-463: the stops of the new position; failure is a warning
SetTradingStopOrder ==
  /\ pc = "order_stops"
  /\ \E ans \in StopAnswers :
       /\ calls' = Append(calls, StopCall(symbol.s, OrderKeys(sl_price, tp_price, ts_price),
                                          sl_price, tp_price, ts_price, ans))
       /\ order_result' = [order_result EXCEPT !.warning = StopWarning(ans)]
  /\ pc' = "executions"
  /\ UNCHANGED <<env_ok, event, telegram_sent, fields, floats, position_size,
                 update_result, pending, title, failures, telegram, response>>

\* lines 465-486: the fill price read back, None when it cannot be had
FillPrice(ans) ==
  IF ans.raises \/ ans.retCode # 0 \/ ans.list = <<>> THEN None
  ELSE LET f == Float(Default(ans.list[1], Num(0)))
       IN IF f.ok THEN Num(f.n) ELSE None

\* mutant: the supplied price is not used when there is no fill price
FallbackPriceNever(fill, p) == fill

\* lines 857-863: the supplied price when there is no fill price
FallbackPrice(fill, p) ==
  IF ~Truthy(fill) /\ Truthy(p)
    THEN (IF Float(p).ok THEN Num(Float(p).n) ELSE Num(0))
    ELSE fill

OrderResponse(fill) ==
  [NoResponse EXCEPT !.statusCode = 200, !.success = TRUE, !.action = action,
     !.quantity = quantity, !.order_id = order_result.order_id,
     !.fill_price = FallbackPrice(fill, price),
     !.stop_loss = sl_price, !.take_profit = tp_price, !.trailing_stop = ts_price]

GetExecutions ==
  /\ pc = "executions"
  /\ \E ans \in ExecutionAnswers :
       /\ calls' = Append(calls, [NoCall EXCEPT !.op = "get_executions", !.symbol = symbol.s,
                                    !.raises = ans.raises, !.retCode = ans.retCode,
                                    !.result = ans.list])
       /\ order_result' = [order_result EXCEPT !.fill_price = FillPrice(ans)]
       /\ Finish(OrderResponse(FillPrice(ans)), "Trade")
  /\ UNCHANGED <<env_ok, event, telegram_sent, fields, floats, position_size,
                 update_result, failures, telegram, response>>

\* ------------------------------------------------------------------------
\* The notification and the return
\* ------------------------------------------------------------------------
\* mutant: the flag is tested the wrong way round
ShouldSendInverted(sent) == sent

\* mutant: the send is not guarded by the flag
ShouldSendAlways(sent) == TRUE

\* `if not telegram_sent:` in front of every send
ShouldSend(sent) == ~sent

\* the try block a path is in when it notifies: the update path's own
\* (lines 656-740), the outer one, or already one of the except clauses
Scope(t) ==
  IF t \in {"Position Update Failed", "Trade UPDATE"} THEN "update"
  ELSE IF t \in {"JSON Parse Error", "Unexpected Lambda Error", "Position Update Exception"}
    THEN "handler"
  ELSE "outer"

\* the except clause that catches an exception raised in that try block
HandlerTitle(t) ==
  IF Scope(t) = "update" THEN "Position Update Exception" ELSE "Unexpected Lambda Error"

HandlerResponse(t) ==
  IF Scope(t) = "update" THEN ErrorResponse(500, MSG_UPDATE_EXC, None)
  ELSE ErrorResponse(500, MSG_INTERNAL, None)

\* the warning appended to a success message (lines 698-700, 878-881)
Warning(t) ==
  IF t = "Trade UPDATE" THEN update_result.warning
  ELSE IF t = "Trade" THEN order_result.warning
  ELSE ""

Message(t, w, d) == [title |-> t, warning |-> w, delivered |-> d]

\* mutant: a failed delivery turns the response into an internal error
AfterSendFailing(r, delivered) ==
  IF delivered THEN r ELSE ErrorResponse(500, MSG_INTERNAL, None)

\* the response the path goes on with after send_telegram_message returned:
\* the RequestException is caught there (lines 63-66) and the returned flag
\* is not looked at by the handler
AfterSend(r, delivered) == r

\* the guarded send of the path the handler is on; delivered is what
\* send_telegram_message returns (a RequestException is swallowed there)
Notify ==
  /\ pc = "notify"
  /\ \E delivered \in BOOLEAN :
       /\ telegram' = IF ShouldSend(telegram_sent)
                        THEN Append(telegram, Message(title, Warning(title), delivered))
                        ELSE telegram
       /\ pending' = AfterSend(pending, delivered)
  /\ telegram_sent' = TRUE
  /\ pc' = "return"
  /\ UNCHANGED <<env_ok, event, fields, floats, position_size, update_result,
                 order_result, title, failures, calls, response>>

\* mutant: the handler ends without returning the response it prepared
ReturnNothing ==
  /\ pc = "return"
  /\ pc' = "done"
  /\ UNCHANGED <<env_ok, event, telegram_sent, fields, floats, position_size,
                 update_result, order_result, pending, title, failures, calls, telegram,
                 response>>

\* the response is built and returned
Return ==
  /\ pc = "return"
  /\ response' = pending
  /\ pc' = "done"
  /\ UNCHANGED <<env_ok, event, telegram_sent, fields, floats, position_size,
                 update_result, order_result, pending, title, failures, calls, telegram>>

Next ==
  \/ ReceiveRequest
  \/ InitClient
  \/ ActionNotString
  \/ BeginUpdate
  \/ SetTradingStopUpdate
  \/ BeginOrder
  \/ GetWalletBalance
  \/ GetInstrumentsInfo
  \/ PlaceOrder
  \/ SetTradingStopOrder
  \/ GetExecutions
  \/ Notify
  \/ Return

Spec == Init /\ [][Next]_vars

\* ------------------------------------------------------------------------
\* Injected internal failures: the handler's own code (the formatting of the
\* message, the building of the response) raises inside a try block, before
\* the send or between the send and the return, and the enclosing except
\* clause (lines 723-740 or 921-938) takes over.
\* ------------------------------------------------------------------------
RaiseBeforeSend ==
  /\ pc = "notify"
  /\ Scope(title) # "handler"
  /\ failures' = failures + 1
  /\ pc' = "except"
  /\ UNCHANGED <<env_ok, event, telegram_sent, fields, floats, position_size,
                 update_result, order_result, pending, title, calls, telegram, response>>

RaiseAfterSend ==
  /\ pc = "return"
  /\ Scope(title) # "handler"
  /\ failures' = failures + 1
  /\ pc' = "except"
  /\ UNCHANGED <<env_ok, event, telegram_sent, fields, floats, position_size,
                 update_result, order_result, pending, title, calls, telegram, response>>

\* the except clause: its own guarded send, then its error response
Except ==
  /\ pc = "except"
  /\ \E delivered \in BOOLEAN :
       telegram' = IF ShouldSend(telegram_sent)
                     THEN Append(telegram, Message(HandlerTitle(title), "", delivered))
                     ELSE telegram
  /\ telegram_sent' = TRUE
  /\ pending' = HandlerResponse(title)
  /\ title' = HandlerTitle(title)
  /\ response' = HandlerResponse(title)
  /\ pc' = "done"
  /\ UNCHANGED <<env_ok, event, fields, floats, position_size, update_result,
                 order_result, failures, calls>>

NextFaults ==
  \/ Next
  \/ RaiseBeforeSend
  \/ RaiseAfterSend
  \/ Except

SpecFaults == Init /\ [][NextFaults]_vars

\* ------------------------------------------------------------------------
\* The invocation runs on.  One request is processed from start to finish
\* and every outbound call returns or raises, so the step the handler is at
\* is eventually taken: weak fairness of the handler's steps, the injected
\* failures included, over a request of every path.
\* ------------------------------------------------------------------------
LiveInit ==
  /\ env_ok \in BOOLEAN
  /\ event \in
       {[kind |-> "json", top |-> EmptyMap,
         body |-> Payload(r[1], r[2], r[3], r[4], r[5][1], r[5][2], r[5][3])] :
          r \in {x \in Requests :
                   /\ x[1] \in {None, Num(5), Str(s_buy), Str(s_Update)}
                   /\ x[2] \in {None, Str(s_sym)}
                   /\ x[3] \in {None, Str(<<"0", ".", "5">>)}
                   /\ x[4] \in {None, Str(s_abc), Num(200000)}
                   /\ x[5] \in {<<None, None, None>>, <<Num(150000), None, None>>}}}
         \cup {[kind |-> k, body |-> EmptyMap, top |-> EmptyMap] :
                 k \in {"bad_json", "json_array"}}
  /\ Entered

SpecLive == LiveInit /\ [][NextFaults]_vars /\ WF_vars(NextFaults)

TypeOK ==
  /\ pc \in {"start", "init_client", "dispatch", "update_stops", "wallet", "instruments",
             "place_order", "order_stops", "executions", "notify", "return", "except",
             "done"}
  /\ telegram_sent \in BOOLEAN
  /\ response.statusCode \in {0, 200, 400, 500}

\* ------------------------------------------------------------------------
\* calculate_position_size over a wider range of balances, prices and
\* constraints: requests {action: buy, symbol, price} that are sized from the
\* balance, and the steps of the handler such a request goes through.
\* ------------------------------------------------------------------------
\* requests {action: buy, symbol, price: 0.5 | 2.0 | 7.0 | -2.0}
SizerEvents ==
  {[kind |-> "json", top |-> EmptyMap,
    body |-> Payload(Str(s_buy), Str(s_sym), None, p, None, None, None)] :
     p \in {Num(50000), Num(200000), Num(700000), Num(0 - 200000)}}

\* get_wallet_balance: an exception, or one account with a USDT balance
SizerWalletAnswers ==
  {[raises |-> TRUE, retCode |-> 0, list |-> <<>>]}
    \cup {[raises |-> FALSE, retCode |-> 0, list |-> <<<<Coin("USDT", b)>>>>] :
            b \in {Num(0), Num(1000), Num(123456), Num(500000), Num(1000000)}}

\* lotSizeFilter: minOrderQty, maxOrderQty, qtyStep as numbers, none of the
\* three, or decimal text the way the exchange sends them
SizerLots ==
  {Lot(lo, hi, st) : lo \in {Num(0), Num(100), Num(500), Num(2000)},
                     hi \in {Num(1000), Num(1500), Num(10000000)},
                     st \in {Num(0), Num(100), Num(1000)}}
    \cup {Lot(None, None, None),
          Lot(Str(<<"0", ".", "0", "0", "1">>), Str(<<"1", "0">>),
              Str(<<"0", ".", "0", "0", "1">>))}

SizerInstrumentAnswers ==
  {[raises |-> TRUE, retCode |-> 0, list |-> <<>>]}
    \cup {[raises |-> FALSE, retCode |-> c, list |-> <<>>] : c \in RejectCodes}
    \cup {[raises |-> FALSE, retCode |-> 0, list |-> <<>>]}
    \cup {[raises |-> FALSE, retCode |-> 0, list |-> <<f>>] : f \in SizerLots}

SizerInit ==
  /\ env_ok = TRUE
  /\ event \in SizerEvents
  /\ Entered

SizerNext ==
  \/ ReceiveRequest
  \/ InitClient
  \/ BeginOrder
  \/ GetWalletBalanceOf(SizerWalletAnswers)
  \/ GetInstrumentsInfoOf(SizerInstrumentAnswers)
  \/ PlaceOrder
  \/ GetExecutions
  \/ Notify
  \/ Return

SpecSizer == SizerInit /\ [][SizerNext]_vars

\* ------------------------------------------------------------------------
\* The symbol normalization over every symbol of up to MaxSymbolLen
\* characters out of a letter, "p", "." and "-": requests
\* {action: buy, symbol, qty: "0.5"} and the steps such a request goes through.
\* ------------------------------------------------------------------------
MaxSymbolLen == 4

RECURSIVE Strings(_, _)
Strings(chars, n) ==
  IF n = 0 THEN {<<>>}
  ELSE LET shorter == Strings(chars, n - 1)
       IN shorter \cup {Append(s, c) : s \in {x \in shorter : Len(x) = n - 1}, c \in chars}

SymbolEvents ==
  {[kind |-> "json", top |-> EmptyMap,
    body |-> Payload(Str(s_buy), Str(s), Str(<<"0", ".", "5">>), None, None, None, None)] :
     s \in Strings({"b", "p", ".", "-"}, MaxSymbolLen)}

SymbolInit ==
  /\ env_ok = TRUE
  /\ event \in SymbolEvents
  /\ Entered

SymbolNext ==
  \/ ReceiveRequest
  \/ InitClient
  \/ BeginOrder
  \/ PlaceOrder
  \/ GetExecutions
  \/ Notify
  \/ Return

SpecSymbols == SymbolInit /\ [][SymbolNext]_vars

\* ------------------------------------------------------------------------
\* The extraction of lines 565-571 over payloads that carry one field under
\* two of its spellings: requests {action: buy, symbol, qty: "0.5"} in which
\* the spellings keys[i] and keys[j] (i < j) of one field hold an earlier and
\* a later value, and the steps such a request goes through.
\* ------------------------------------------------------------------------
FieldKeys == <<ActionKeys, SymbolKeys, QtyKeys, PriceKeys, SlKeys, TpKeys, TsKeys>>

\* the later spelling holds a value of the field's kind or is not there; the
\* earlier one holds another such value, a value that is falsy (0, ""), or
\* is not there
VariantEvents ==
  LET base == Payload(Str(s_buy), Str(s_sym), Str(<<"0", ".", "5">>), None, None, None, None)
      later(keys) == IF keys = ActionKeys THEN Str(s_buy)
                     ELSE IF keys = SymbolKeys THEN Str(s_sym)
                     ELSE Num(150000)
      earlier(keys) == IF keys = ActionKeys THEN Str(s_SELL)
                       ELSE IF keys = SymbolKeys THEN Str(<<"e", "t", "h">>)
                       ELSE Num(50000)
      bodies(keys) ==
        {[k \in Keys |-> IF k = keys[p[1]] THEN v
                         ELSE IF k = keys[p[2]] THEN w
                         ELSE IF k \in Range(keys) THEN None
                         ELSE base[k]] :
           p \in {q \in (1..Len(keys)) \X (1..Len(keys)) : q[1] < q[2]},
           v \in {None, Num(0), Str(<<>>), earlier(keys)},
           w \in {None, later(keys)}}
  IN {[kind |-> "json", top |-> EmptyMap, body |-> b] :
        b \in UNION {bodies(FieldKeys[f]) : f \in 1..Len(FieldKeys)}}

VariantInit ==
  /\ env_ok = TRUE
  /\ event \in VariantEvents
  /\ Entered

VariantNext ==
  \/ ReceiveRequest
  \/ InitClient
  \/ BeginOrder
  \/ PlaceOrder
  \/ SetTradingStopOrder
  \/ GetExecutions
  \/ Notify
  \/ Return

SpecVariants == VariantInit /\ [][VariantNext]_vars

\* ------------------------------------------------------------------------
\* The decimal text of quantities and stop prices: requests
\* {action: buy, symbol, qty: x, sl: x} for every x from 0.00001 to
\* MaxDecimal * 0.00001 and some larger ones, through the steps of
\* VariantNext.
\* ------------------------------------------------------------------------
MaxDecimal == 120

FormatEvents ==
  {[kind |-> "json", top |-> EmptyMap,
    body |-> Payload(Str(s_buy), Str(s_sym), Num(x), None, Num(x), None, None)] :
     x \in (1..MaxDecimal) \cup {1000, 4938, 100000, 120000, 123450, 1000000, 20500000}}

FormatInit ==
  /\ env_ok = TRUE
  /\ event \in FormatEvents
  /\ Entered

SpecFormat == FormatInit /\ [][VariantNext]_vars

\* ------------------------------------------------------------------------
\* Properties
\* ------------------------------------------------------------------------
Done == pc = "done"

\* the request carries a JSON object, and the object
IsObject == event.kind \in {"json", "direct"}
TheBody == Body(event)

Absent(keys) == \A i \in 1..Len(keys) : TheBody[keys[i]] = None

Given(keys) == Extract(TheBody, keys)

\* a well-formed Buy/Sell request, a well-formed Update request
OrderRequest ==
  /\ IsObject
  /\ Given(ActionKeys).t = "str" /\ Truthy(Given(ActionKeys)) /\ ~IsUpdate(Given(ActionKeys))
  /\ Given(SymbolKeys).t = "str" /\ Truthy(Given(SymbolKeys))

UpdateRequest ==
  /\ IsObject
  /\ IsUpdate(Given(ActionKeys))
  /\ Given(SymbolKeys).t = "str" /\ Truthy(Given(SymbolKeys))

\* the handler got past the configuration check and the client construction
Serving == env_ok /\ response.error # MSG_CLIENT

CallsOf(op) == {i \in 1..Len(calls) : calls[i].op = op}

HandlerTitles == {"JSON Parse Error", "Unexpected Lambda Error", "Position Update Exception"}

\* C1 as stated: on every path that returns a response, the missing
\* configuration path included, exactly one notification has been sent.
C1_ExactlyOneNotification == Done => Len(telegram) = 1

\* C1 amended: every path that returns a response has sent exactly one
\* notification, except the missing-configuration path (lines 542-549),
\* which returns before anything is sent and sends none.
C1_OneNotificationUnlessUnconfigured ==
  Done => Len(telegram) = (IF env_ok THEN 1 ELSE 0)

C1_Witness ==
  /\ Done /\ env_ok
  /\ response.statusCode = 500 /\ response.error = MSG_RET
  /\ Len(calls) > 0
  /\ Len(telegram) = 1

\* C2: once a notification has been sent in a request, no step of the same
\* request sends another one, so a failure after the send (caught at 723 or
\* 921) leaves one outbound message.
C2_NoSecondNotification ==
  /\ [](Len(telegram) <= 1)
  /\ [][telegram_sent => telegram' = telegram]_vars

\* an exchange rejection was notified, then the handler's code raised and the
\* except clause ran: two failures, one message, the first one's
C2_Witness ==
  /\ Done
  /\ failures >= 1
  /\ title \in HandlerTitles
  /\ response.statusCode = 500
  /\ Len(telegram) = 1
  /\ telegram[1].title \in {"Position Update Failed", "Order Execution Failed"}

\* C3: a payload without action, or without symbol, never leads to an
\* exchange call, and (the configuration being present) it is answered with
\* 400, success=false and the error that names the missing field.
C3_MissingFieldRejected ==
  IsObject /\ (Absent(ActionKeys) \/ Absent(SymbolKeys)) =>
    /\ calls = <<>>
    /\ Done /\ env_ok =>
         /\ response.statusCode = 400
         /\ ~response.success
         /\ response.error = (IF Absent(ActionKeys) THEN MSG_ACTION ELSE MSG_SYMBOL)

C3_Witness ==
  /\ Done /\ env_ok /\ IsObject
  /\ ~Absent(ActionKeys) /\ Absent(SymbolKeys)
  /\ response.statusCode = 400 /\ response.error = MSG_SYMBOL
  /\ calls = <<>>

\* C4: a Buy/Sell request with neither quantity nor price never leads to an
\* exchange call and, once the handler serves it, is answered with 400 and
\* success=false.
C4_NoQuantityNoPrice ==
  OrderRequest /\ Absent(QtyKeys) /\ Absent(PriceKeys) =>
    /\ calls = <<>>
    /\ Done /\ Serving => response.statusCode = 400 /\ ~response.success

C4_Witness ==
  /\ Done /\ Serving
  /\ OrderRequest /\ Absent(QtyKeys) /\ Absent(PriceKeys)
  /\ response.statusCode = 400 /\ response.error = MSG_NO_PRICE

\* C5: a Buy/Sell request without quantity whose price is there but does not
\* parse as a number never leads to an exchange call and, once the handler
\* serves it, is answered with 400, success=false and the invalid-price error.
C5_InvalidPrice ==
  OrderRequest /\ Absent(QtyKeys) /\ Truthy(Given(PriceKeys)) /\ ~Float(Given(PriceKeys)).ok =>
    /\ calls = <<>>
    /\ Done /\ Serving =>
         /\ response.statusCode = 400
         /\ ~response.success
         /\ response.error = MSG_PRICE

C5_Witness ==
  /\ Done /\ Serving
  /\ OrderRequest /\ Absent(QtyKeys) /\ Given(PriceKeys) = Str(s_abc)
  /\ response.statusCode = 400 /\ response.error = MSG_PRICE

\* C6 as stated: the status follows the outcome class: 200 exactly when
\* success=true, 400 for every validation failure (text that is not JSON,
\* missing action or symbol, missing or invalid price, Update with no
\* protective field), 500 for every execution or internal failure.
C6_StatusByOutcome ==
  Done =>
    /\ (response.statusCode = 200) = response.success
    /\ response.error \in {MSG_JSON, MSG_ACTION, MSG_SYMBOL, MSG_NO_PRICE, MSG_PRICE,
                           MSG_NO_FIELDS}
         => response.statusCode = 400
    /\ response.error \in {MSG_ENV, MSG_CLIENT, MSG_SIZE, MSG_RET, MSG_EXC, MSG_INTERNAL,
                           MSG_UPDATE_EXC}
         => response.statusCode = 500

\* the fields of an Update request that carry a number
Supplied ==
  {k \in {"stopLoss", "takeProfit", "trailingStop"} :
     LET v == Given(CASE k = "stopLoss" -> SlKeys [] k = "takeProfit" -> TpKeys
                      [] OTHER -> TsKeys)
     IN Truthy(v) /\ Float(v).ok}

\* C7: an Update request with at least one usable protective field makes no
\* exchange call other than set_trading_stop, and once served has made
\* exactly one, carrying exactly the supplied fields, each as its decimal text.
C7_UpdateSingleStopCall ==
  UpdateRequest /\ Supplied # {} =>
    /\ \A i \in 1..Len(calls) : calls[i].op = "set_trading_stop"
    /\ Len(calls) <= 1
    /\ Done /\ Serving =>
         /\ Len(calls) = 1
         /\ calls[1].keys = Supplied
         /\ calls[1].stopLoss =
              (IF "stopLoss" \in Supplied THEN FormatDecimal(Float(Given(SlKeys)).n) ELSE <<>>)
         /\ calls[1].takeProfit =
              (IF "takeProfit" \in Supplied THEN FormatDecimal(Float(Given(TpKeys)).n) ELSE <<>>)
         /\ calls[1].trailingStop =
              (IF "trailingStop" \in Supplied THEN FormatDecimal(Float(Given(TsKeys)).n) ELSE <<>>)

\* {action: update, ts: 1.5}: one call with only trailingStop "1.5"
C7_Witness ==
  /\ Done /\ Serving /\ UpdateRequest
  /\ Supplied = {"trailingStop"}
  /\ Len(calls) = 1
  /\ calls[1].keys = {"trailingStop"}
  /\ calls[1].trailingStop = <<"1", ".", "5">>

\* C8: an Update whose protective fields are all absent or all unparsable
\* (update_position_stops called with three None) makes no exchange call and
\* fails with the no-fields error.
C8_NoFieldsToUpdate ==
  UpdateRequest /\ Supplied = {} =>
    /\ calls = <<>>
    /\ Done /\ Serving =>
         /\ ~update_result.success
         /\ ~response.success
         /\ response.error = MSG_NO_FIELDS

C8_Witness ==
  /\ Done /\ Serving /\ UpdateRequest
  /\ Given(SlKeys) = Str(s_abc)
  /\ sl_price = None /\ tp_price = None /\ ts_price = None
  /\ calls = <<>>
  /\ response.error = MSG_NO_FIELDS

\* the set_trading_stop call of an Update request
UpdateCall(i) == calls[i].op = "set_trading_stop" /\ IsUpdate(action)

\* C9: when the stop-setting call of an Update returns 34040, the update
\* result is a success with a warning and the response is 200, success=true.
C9_UnchangedIsSuccess ==
  \A i \in 1..Len(calls) :
    UpdateCall(i) /\ ~calls[i].raises /\ calls[i].retCode = 34040 =>
      /\ update_result.success
      /\ update_result.warning # ""
      /\ Done => response.statusCode = 200 /\ response.success

C9_Witness ==
  /\ Done
  /\ Len(calls) = 1 /\ UpdateCall(1) /\ calls[1].retCode = 34040
  /\ response.statusCode = 200
  /\ Len(telegram) = 1 /\ telegram[1].warning = W_UPDATE_UNCHANGED

\* a non-zero result code of the primary call: place_order, or the
\* set_trading_stop of an Update other than 34040
PrimaryRejected(i) ==
  /\ ~calls[i].raises
  /\ \/ calls[i].op = "place_order" /\ calls[i].retCode # 0
     \/ UpdateCall(i) /\ calls[i].retCode \notin {0, 34040}

\* C10: a rejected primary call is the last exchange call of the request and
\* is made once, and the response is a failure with the exchange's code and
\* message.
C10_RejectionIsTerminal ==
  \A i \in 1..Len(calls) :
    PrimaryRejected(i) =>
      /\ i = Len(calls)
      /\ CallsOf(calls[i].op) = {i}
      /\ Done =>
           /\ ~response.success
           /\ response.error_code = Num(calls[i].retCode)
           /\ response.error = MSG_RET

\* place_order rejected with stops requested: no set_trading_stop follows
C10_Witness ==
  /\ Done
  /\ Len(calls) >= 1
  /\ calls[Len(calls)].op = "place_order" /\ PrimaryRejected(Len(calls))
  /\ Truthy(sl_price)
  /\ response.error_code = Num(10001)

\* place_order answered with result code 0
OrderPlaced(i) == calls[i].op = "place_order" /\ ~calls[i].raises /\ calls[i].retCode = 0

\* the stops execute_bybit_order was asked for: the parameters that are a
\* number other than zero
Requested ==
  {k \in {"stopLoss", "takeProfit", "trailingStop"} :
     LET v == CASE k = "stopLoss" -> sl_price [] k = "takeProfit" -> tp_price
                [] OTHER -> ts_price
     IN v # None /\ v.n # 0}

\* the stop-setting sub-step of execute_bybit_order is over
AfterStops == pc \in {"executions", "notify", "return", "done"}

\* C11: after place_order returned 0, the stops that were requested go out in
\* exactly one set_trading_stop call, right after the order, with exactly the
\* requested fields as decimal text; with no stop requested there is no
\* set_trading_stop call.
C11_StopsAfterOrder ==
  \A i \in 1..Len(calls) :
    OrderPlaced(i) =>
      /\ CallsOf("set_trading_stop") \subseteq {i + 1}
      /\ Requested = {} => CallsOf("set_trading_stop") = {}
      /\ Requested # {} /\ AfterStops =>
           /\ CallsOf("set_trading_stop") = {i + 1}
           /\ calls[i + 1].keys = Requested
           /\ calls[i + 1].symbol = calls[i].symbol
           /\ calls[i + 1].stopLoss =
                (IF "stopLoss" \in Requested THEN FormatDecimal(sl_price.n) ELSE <<>>)
           /\ calls[i + 1].takeProfit =
                (IF "takeProfit" \in Requested THEN FormatDecimal(tp_price.n) ELSE <<>>)
           /\ calls[i + 1].trailingStop =
                (IF "trailingStop" \in Requested THEN FormatDecimal(ts_price.n) ELSE <<>>)

\* {action: buy, qty: 0.5, trailing_stop: 1.5}: the order, then one call with
\* only trailingStop "1.5"
C11_Witness ==
  /\ Done
  /\ Len(calls) >= 2
  /\ OrderPlaced(1)
  /\ Requested = {"trailingStop"}
  /\ calls[2].op = "set_trading_stop"
  /\ calls[2].keys = {"trailingStop"}
  /\ calls[2].trailingStop = <<"1", ".", "5">>
  /\ response.statusCode = 200

\* a stop loss given as "0" is the number zero: the order goes out without a
\* stop call
C11_ZeroStop ==
  /\ Done
  /\ sl_price = Num(0) /\ tp_price = None /\ ts_price = None
  /\ Len(calls) >= 1 /\ OrderPlaced(1)
  /\ CallsOf("set_trading_stop") = {}

\* the set_trading_stop call that follows the placed order i
OrderStopCall(i) ==
  /\ i > 1
  /\ OrderPlaced(i - 1)
  /\ calls[i].op = "set_trading_stop"

\* C12: when the stop call after a placed order raises or returns a non-zero
\* code, the order result stays a success with a non-empty warning, no
\* further order call is made, and the response is 200 with success=true
\* and the order id.
C12_StopFailureNotFatal ==
  \A i \in 1..Len(calls) :
    OrderStopCall(i) /\ (calls[i].raises \/ calls[i].retCode # 0) =>
      /\ order_result.success
      /\ order_result.warning # ""
      /\ CallsOf("place_order") = {i - 1}
      /\ pc \in {"executions", "notify", "return", "done"}
      /\ pc \in {"notify", "return", "done"} => pending.statusCode = 200 /\ pending.success
      /\ Done =>
           /\ response.statusCode = 200
           /\ response.success
           /\ response.order_id = ORDER_ID
           /\ telegram[1].title = "Trade"
           /\ telegram[1].warning = order_result.warning

\* the stop call raised: 200, and the message carries the exception warning
C12_Witness ==
  /\ Done
  /\ Len(calls) = 3
  /\ OrderStopCall(2) /\ calls[2].raises
  /\ response.statusCode = 200 /\ response.success
  /\ order_result.warning = W_ORDER_EXC
  /\ telegram[1].warning = W_ORDER_EXC

\* C13 as stated: 34040 from the stop call after a placed order leaves the
\* outcome without a warning.
C13_UnchangedNoWarning ==
  \A i \in 1..Len(calls) :
    OrderStopCall(i) /\ ~calls[i].raises /\ calls[i].retCode = 34040 =>
      order_result.warning = ""

\* C13 amended: 34040 from the stop call after a placed order is told apart
\* from the other non-zero codes, but not silently: the outcome carries the
\* "not modified" warning (not the "setup failed" one), the order stays a
\* success and the warning goes out with the success message.
C13_UnchangedOwnWarning ==
  \A i \in 1..Len(calls) :
    OrderStopCall(i) /\ ~calls[i].raises =>
      /\ calls[i].retCode = 34040 =>
           /\ order_result.success
           /\ order_result.warning = W_ORDER_UNCHANGED
           /\ Done => response.statusCode = 200 /\ telegram[1].warning = W_ORDER_UNCHANGED
      /\ calls[i].retCode \notin {0, 34040} => order_result.warning = W_ORDER_FAILED
      /\ calls[i].retCode = 0 => order_result.warning = ""

C13_Witness ==
  /\ Done
  /\ Len(calls) = 3
  /\ OrderStopCall(2) /\ ~calls[2].raises /\ calls[2].retCode = 34040
  /\ response.statusCode = 200
  /\ telegram[1].title = "Trade"
  /\ telegram[1].warning = W_ORDER_UNCHANGED

\* the fill-price read-back failed: exception, non-zero code or no execution
ReadBackFailed(i) ==
  /\ calls[i].op = "get_executions"
  /\ calls[i].raises \/ calls[i].retCode # 0 \/ calls[i].result = <<>>

\* C14: when the read-back of the fill price fails after a placed order, the
\* order result stays a success with no fill price, the response is 200, and
\* its fill_price is the supplied price when a price (a number) was supplied
\* and empty when no price was supplied.
C14_FillPriceFallback ==
  \A i \in 1..Len(calls) :
    ReadBackFailed(i) =>
      /\ order_result.success
      /\ order_result.fill_price = None
      /\ pending.statusCode = 200 /\ pending.success
      /\ Truthy(price) /\ Float(price).ok => pending.fill_price = Num(Float(price).n)
      /\ ~Truthy(price) => pending.fill_price = None
      /\ Done => response = pending

\* {action: buy, price: 2.0} sized from the balance, get_executions raises:
\* fill_price 2.0
C14_Witness ==
  /\ Done
  /\ Len(calls) >= 2
  /\ ReadBackFailed(Len(calls)) /\ calls[Len(calls)].raises
  /\ price = Num(200000)
  /\ response.statusCode = 200
  /\ response.fill_price = Num(200000)

\* a price that is no number is replaced by 0.0 in the fallback
C14_UnparsablePrice ==
  /\ Done
  /\ Len(calls) >= 1
  /\ ReadBackFailed(Len(calls))
  /\ price = Str(s_abc)
  /\ response.statusCode = 200
  /\ response.fill_price = Num(0)

s_BUY == <<"B", "U", "Y">>
s_LONG == <<"L", "O", "N", "G">>
s_SHORT == <<"S", "H", "O", "R", "T">>

\* C15 as stated: every place_order call is for an action of the synonym
\* table, with side Buy exactly for buy or long and side Sell exactly for
\* sell or short (any case); no other action leads to a place_order call.
C15_SideBySynonym ==
  \A i \in 1..Len(calls) :
    calls[i].op = "place_order" =>
      LET a == StrUpper(action.s)
      IN /\ a \in {s_BUY, s_LONG, s_SELL, s_SHORT}
         /\ (calls[i].side = "Buy") = (a \in {s_BUY, s_LONG})
         /\ (calls[i].side = "Sell") = (a \in {s_SELL, s_SHORT})

\* what holds of the code: Buy exactly for buy or long, Sell for every other
\* action that is text and not update
C15_SideAsCoded ==
  \A i \in 1..Len(calls) :
    calls[i].op = "place_order" =>
      /\ action.t = "str" /\ ~IsUpdate(action)
      /\ (calls[i].side = "Buy") = (StrUpper(action.s) \in {s_BUY, s_LONG})
      /\ (calls[i].side = "Sell") = (StrUpper(action.s) \notin {s_BUY, s_LONG})

\* {action: hold, qty: 0.5}: a Sell order is placed
C15_HoldSells ==
  /\ Done
  /\ action = Str(s_hold)
  /\ Len(calls) >= 1
  /\ calls[1].op = "place_order" /\ calls[1].side = "Sell"
  /\ response.statusCode = 200

\* the sizer's get_instruments_info call returned the instrument's constraints
ConstraintsAvailable(i) ==
  /\ calls[i].op = "get_instruments_info"
  /\ ~calls[i].raises /\ calls[i].retCode = 0
  /\ calls[i].result # <<>>

\* the constraints of call i as numbers, the defaults of lines 216-218 applied
MinQty(i) == Float(Default(calls[i].result[1].minOrderQty, Num(0))).n
HasMaxQty(i) == calls[i].result[1].maxOrderQty # None
MaxQty(i) == Float(calls[i].result[1].maxOrderQty).n
QtyStep(i) == Float(Default(calls[i].result[1].qtyStep, Num(Unit \div 1000))).n

IsMultiple(x, step) == IF step = 0 THEN x = 0 ELSE x % step = 0

\* the entry price and the equity the sizer worked with are positive
PositiveInputs == Float(price).n > 0 /\ position_size # None

\* the quantity calculate_position_size returned is within the constraints
\* of call i and a multiple of the step
Compliant(i) ==
  /\ quantity.n >= MinQty(i)
  /\ HasMaxQty(i) => quantity.n <= MaxQty(i)
  /\ IsMultiple(quantity.n, QtyStep(i))

\* C16 as stated: with constraints available and positive equity and price,
\* the returned quantity is within [minQty, maxQty] and a multiple of
\* qtyStep, whatever the constraint triple.
C16_AlwaysCompliant ==
  \A i \in 1..Len(calls) :
    ConstraintsAvailable(i) /\ PositiveInputs => Compliant(i)

\* a triple the rounding and clamping of lines 221-224 can satisfy: a step
\* above zero, minQty <= maxQty, and both of them multiples of the step
WellFormed(i) ==
  /\ QtyStep(i) > 0
  /\ IsMultiple(MinQty(i), QtyStep(i))
  /\ HasMaxQty(i) => MinQty(i) <= MaxQty(i) /\ IsMultiple(MaxQty(i), QtyStep(i))

\* C16 amended: with constraints available and positive equity and price,
\* the returned quantity is within [minQty, maxQty] and a multiple of qtyStep
\* for every constraint triple with qtyStep > 0, minQty <= maxQty and minQty,
\* maxQty multiples of qtyStep.
C16_CompliantWhenWellFormed ==
  \A i \in 1..Len(calls) :
    ConstraintsAvailable(i) /\ PositiveInputs /\ WellFormed(i) => Compliant(i)

\* 1.23456 * 0.02 / 0.5 = 0.04938 with step 0.001 in [0.001, 100]: 0.049
C16_Witness ==
  /\ Done
  /\ Len(calls) >= 2
  /\ ConstraintsAvailable(2) /\ PositiveInputs /\ WellFormed(2)
  /\ position_size = Num(4938)
  /\ quantity = Num(4900)
  /\ response.statusCode = 200

\* clamped to a maxQty that is smaller than the rounded quantity
C16_Clamped ==
  /\ Len(calls) >= 2
  /\ ConstraintsAvailable(2) /\ PositiveInputs /\ WellFormed(2)
  /\ quantity.n = MaxQty(2)
  /\ position_size.n > MaxQty(2)

\* the sizer's get_instruments_info call gave no constraints: exception,
\* non-zero code or no instrument
ConstraintsUnavailable(i) ==
  /\ calls[i].op = "get_instruments_info"
  /\ calls[i].raises \/ calls[i].retCode # 0 \/ calls[i].result = <<>>

\* the equity read from the get_wallet_balance call i
Equity(i) == TotalEquity(calls[i].result, 0).n

\* q is equity * 0.02 / entry to the nearest unit of the model's numbers
IsRawQuantity(q, equity, entry) ==
  2 * Abs(q * entry - equity * risk_percent * (Unit \div 100)) <= Abs(entry)

\* C17: with positive equity and no constraints to be had, the quantity
\* calculate_position_size returns is the raw quantity
\* equity * 0.02 / entryPrice, unrounded, and no failure; with a positive
\* price the handler goes on to the order.
C17_RawWhenUnconstrained ==
  \A i \in 1..Len(calls) :
    ConstraintsUnavailable(i) =>
      /\ i > 1 /\ calls[i - 1].op = "get_wallet_balance" /\ Equity(i - 1) > 0
      /\ quantity # None
      /\ quantity = position_size
      /\ IsRawQuantity(quantity.n, Equity(i - 1), Float(price).n)
      /\ Float(price).n > 0 =>
           /\ title # "Position Size Calculation Failed"
           /\ pc \in {"notify", "return", "done"} => CallsOf("place_order") = {i + 1}

\* 1.23456 * 0.02 / 0.5 = 0.04938 goes to the order unrounded (as "0.0494")
C17_Witness ==
  /\ Done
  /\ Len(calls) >= 3
  /\ ConstraintsUnavailable(2) /\ calls[2].raises
  /\ Equity(1) = 123456
  /\ quantity = Num(4938)
  /\ calls[3].op = "place_order" /\ calls[3].qty = <<"0", ".", "0", "4", "9", "4">>
  /\ response.quantity = Num(4938)

\* some account of the answer holds a positive USDT balance
PositiveUsdt(accounts) ==
  \E a \in 1..Len(accounts) :
    LET c == FirstUsdt(accounts[a])
    IN c # 0 /\ Float(accounts[a][c].walletBalance).ok
              /\ Float(accounts[a][c].walletBalance).n > 0

\* the get_wallet_balance call i gave no positive equity: exception, non-zero
\* code, no account, no USDT coin, or a balance that is zero or negative
NoEquity(i) ==
  /\ calls[i].op = "get_wallet_balance"
  /\ calls[i].raises \/ calls[i].retCode # 0 \/ ~PositiveUsdt(calls[i].result)

\* C18: when the balance call gives no positive equity, calculate_position_size
\* returns None (no exception reaches the handler), no further exchange call
\* is made, place_order in particular, and the response is the sizing failure.
C18_NoEquityNoOrder ==
  \A i \in 1..Len(calls) :
    NoEquity(i) =>
      /\ position_size = None
      /\ quantity = None
      /\ i = Len(calls)
      /\ CallsOf("place_order") = {}
      /\ failures = 0
      /\ title = "Position Size Calculation Failed"
      /\ pending.statusCode = 500 /\ ~pending.success /\ pending.error = MSG_SIZE
      /\ Done => response = pending

\* the balance is there but zero in every account
C18_Witness ==
  /\ Done
  /\ Len(calls) = 1
  /\ NoEquity(1) /\ ~calls[1].raises /\ calls[1].retCode = 0
  /\ calls[1].result = <<<<Coin("USDT", Num(0))>>>>
  /\ response.statusCode = 500 /\ response.error = MSG_SIZE

\* calculate_position_size got as far as get_instruments_info (call i), so
\* what it returned is a number: the handler's quantity
SizerReturned(i) == calls[i].op = "get_instruments_info"

\* C19 as stated: a quantity that calculate_position_size returns is
\* positive; a computed quantity of zero or less is returned as None.
C19_SizerNeverNonPositive ==
  \A i \in 1..Len(calls) :
    SizerReturned(i) => quantity.n > 0

\* C19 amended: calculate_position_size returns the computed quantity also
\* when it is zero or negative; it is lambda_handler (line 771) that treats a
\* returned quantity of zero or less as a sizing failure: no place_order call
\* and the response 500 "Failed to calculate position size". A positive
\* quantity goes on to place_order.
C19_NonPositiveIsFailure ==
  \A i \in 1..Len(calls) :
    SizerReturned(i) =>
      /\ quantity # None
      /\ quantity.n <= 0 =>
           /\ i = Len(calls)
           /\ CallsOf("place_order") = {}
           /\ title = "Position Size Calculation Failed"
           /\ pending.statusCode = 500 /\ ~pending.success /\ pending.error = MSG_SIZE
           /\ Done => response = pending
      /\ quantity.n > 0 =>
           /\ title # "Position Size Calculation Failed"
           /\ pc = "place_order" \/ CallsOf("place_order") = {i + 1}

\* 0.01 * 0.02 / 7.0 = 0.00003 rounds to 0 steps of 0.001 with minQty 0:
\* the sizer returns 0.0 and the handler answers with the sizing failure
C19_Witness ==
  /\ Done
  /\ Len(calls) = 2
  /\ ConstraintsAvailable(2) /\ PositiveInputs /\ WellFormed(2)
  /\ position_size.n > 0
  /\ quantity = Num(0)
  /\ response.statusCode = 500 /\ response.error = MSG_SIZE

\* a negative price and no constraints: the sizer returns a negative quantity
C19_Negative ==
  /\ Done
  /\ Len(calls) = 2
  /\ ConstraintsUnavailable(2)
  /\ quantity.n < 0
  /\ response.error = MSG_SIZE

\* the handler has normalized the request's symbol into `symbol`
Normalized ==
  /\ pc # "start" /\ env_ok /\ IsObject
  /\ Truthy(Given(ActionKeys))
  /\ Given(SymbolKeys).t = "str" /\ Truthy(Given(SymbolKeys))

\* s contains the text pat
Contains(s, pat) ==
  \E i \in 1..Len(s) : i + Len(pat) - 1 <= Len(s) /\ SubSeq(s, i, i + Len(pat) - 1) = pat

\* C20 as stated: normalizing the normalized symbol again changes nothing,
\* whatever the symbol.
C20_Idempotent ==
  Normalized => NormalizeSymbol(symbol.s) = symbol.s

\* every "." of s is directly followed by "p" or "P"
DotsMarkSuffix(s) ==
  \A i \in 1..Len(s) : s[i] = "." => i < Len(s) /\ s[i + 1] \in {"p", "P"}

\* C20 amended: normalizing the normalized symbol again changes nothing for
\* every symbol in which each "." is directly followed by "p" or "P" (the
\* perpetual suffix); in general it changes nothing exactly when the single
\* pass has left no ".P" in the normalized symbol.
C20_IdempotentOnSuffixDots ==
  Normalized =>
    /\ DotsMarkSuffix(Given(SymbolKeys).s) => NormalizeSymbol(symbol.s) = symbol.s
    /\ (NormalizeSymbol(symbol.s) = symbol.s) = ~Contains(symbol.s, <<".", "P">>)
    /\ ~Contains(symbol.s, <<"-">>)
    /\ StrUpper(symbol.s) = symbol.s

\* "b-.p" is normalized to "B", and the order goes out for "B"
C20_Witness ==
  /\ Done /\ Normalized
  /\ Given(SymbolKeys).s = <<"b", "-", ".", "p">>
  /\ DotsMarkSuffix(Given(SymbolKeys).s)
  /\ symbol = Str(<<"B">>)
  /\ Len(calls) >= 1 /\ calls[1].symbol = <<"B">>

\* "..pp" is normalized to ".P", which a second pass would empty
C20_LeftOver ==
  /\ Normalized
  /\ Given(SymbolKeys).s = <<".", ".", "p", "p">>
  /\ symbol = Str(<<".", "P">>)
  /\ NormalizeSymbol(symbol.s) = <<>>

\* the values the handler extracted, in the order of FieldKeys
Extracted == <<action, symbol, qty, price, stop_loss, take_profit, trailing_stop>>

\* field f was extracted as v (the symbol is normalized afterwards)
ExtractedAs(f, v) ==
  \/ Extracted[f] = v
  \/ FieldKeys[f] = SymbolKeys /\ v.t = "str" /\ Extracted[f] = Str(NormalizeSymbol(v.s))

\* the handler has read the fields of a JSON object
FieldsRead == pc # "start" /\ env_ok /\ IsObject

\* the value of the first key of the list that is in the payload, None if
\* none is
RECURSIVE FirstPresent(_, _)
FirstPresent(body, keys) ==
  IF keys = <<>> THEN None
  ELSE IF body[Head(keys)] # None THEN body[Head(keys)]
  ELSE FirstPresent(body, Tail(keys))

\* the first value of the list that is truthy; with none, the value under
\* the last key
FirstTruthy(body, keys) ==
  IF \E i \in 1..Len(keys) : Truthy(body[keys[i]])
    THEN body[keys[CHOOSE i \in 1..Len(keys) :
                     /\ Truthy(body[keys[i]])
                     /\ \A j \in 1..(i - 1) : ~Truthy(body[keys[j]])]]
    ELSE body[keys[Len(keys)]]

\* C21 as stated: each extracted field is the value of the first key of its
\* priority list that is present in the payload, whatever that value is
\* (two falsy values, which the handler does not tell apart, count as the
\* same value).
C21_FirstPresentWins ==
  FieldsRead =>
    \A f \in 1..Len(FieldKeys) :
      \/ ExtractedAs(f, FirstPresent(TheBody, FieldKeys[f]))
      \/ ~Truthy(Extracted[f]) /\ ~Truthy(FirstPresent(TheBody, FieldKeys[f]))

\* what holds of the code: each extracted field is the first truthy value
\* along its priority list; an earlier spelling that is there with 0 or ""
\* gives way to a later one
C21_FirstTruthyWins ==
  FieldsRead =>
    \A f \in 1..Len(FieldKeys) : ExtractedAs(f, FirstTruthy(TheBody, FieldKeys[f]))

\* {qty: 0, quantity: 1.5}: the quantity 1.5 is ordered
C21_FalsyGivesWay ==
  /\ Done /\ FieldsRead
  /\ TheBody["qty"] = Num(0) /\ TheBody["quantity"] = Num(150000)
  /\ qty = Num(150000)
  /\ Len(calls) >= 1 /\ calls[1].op = "place_order"
  /\ calls[1].qty = <<"1", ".", "5">>

\* {qty: 0.5, quantity: 1.5}: the earlier spelling wins
C21_EarlierWins ==
  /\ Done /\ FieldsRead
  /\ TheBody["qty"] = Num(50000) /\ TheBody["quantity"] = Num(150000)
  /\ qty = Num(50000)
  /\ Len(calls) >= 1 /\ calls[1].qty = <<"0", ".", "5">>

\* the decimal texts the calls carry, each with the number it was made from
Formatted ==
  {<<calls[i].qty, quantity.n>> : i \in CallsOf("place_order")}
    \cup {<<calls[i].stopLoss, sl_price.n>> :
            i \in {j \in CallsOf("set_trading_stop") : "stopLoss" \in calls[j].keys}}
    \cup {<<calls[i].takeProfit, tp_price.n>> :
            i \in {j \in CallsOf("set_trading_stop") : "takeProfit" \in calls[j].keys}}
    \cup {<<calls[i].trailingStop, ts_price.n>> :
            i \in {j \in CallsOf("set_trading_stop") : "trailingStop" \in calls[j].keys}}

\* no trailing zero after a decimal point and no trailing decimal point
Stripped(s) ==
  /\ s # <<>>
  /\ s[Len(s)] # "."
  /\ Contains(s, <<".">>) => s[Len(s)] # "0"

\* C22 as stated: the decimal text of a quantity or stop price parses back
\* to the number it was made from, and ends neither in a zero after the
\* decimal point nor in the decimal point.
C22_RoundTrip ==
  \A d \in Formatted :
    /\ ParseFloat(d[1]).ok
    /\ ParseFloat(d[1]).n = d[2]
    /\ Stripped(d[1])

\* C22 amended: the text parses back to the number rounded to four decimals:
\* to the number itself when it has at most four decimals, else to a number
\* of four decimals at most half a unit of the fourth decimal away; it ends
\* neither in a zero after the decimal point nor in the decimal point.
C22_RoundTripToFourDecimals ==
  \A d \in Formatted :
    /\ ParseFloat(d[1]).ok
    /\ ParseFloat(d[1]).n % 10 = 0
    /\ 2 * Abs(ParseFloat(d[1]).n - d[2]) <= 10
    /\ d[2] % 10 = 0 => ParseFloat(d[1]).n = d[2]
    /\ Stripped(d[1])

\* 10.0 goes out as "10", 1.2345 as "1.2345"
C22_Witness ==
  /\ Done
  /\ Len(calls) >= 2
  /\ \/ quantity = Num(1000000) /\ calls[1].qty = <<"1", "0">>
              /\ calls[2].stopLoss = <<"1", "0">>
     \/ quantity = Num(123450) /\ calls[1].qty = <<"1", ".", "2", "3", "4", "5">>
              /\ calls[2].stopLoss = <<"1", ".", "2", "3", "4", "5">>
  /\ response.statusCode = 200

\* 0.04938 goes out as "0.0494"
C22_Rounded ==
  /\ Len(calls) >= 1
  /\ quantity = Num(4938)
  /\ calls[1].qty = <<"0", ".", "0", "4", "9", "4">>

\* everything the response is made from
ResponseState ==
  <<env_ok, event, fields, floats, position_size, update_result, order_result,
    pending, title, failures, calls>>

\* C23: the outcome of the delivery enters the run at the send only, and
\* there it changes nothing but the record of the message: the step of the
\* send leaves the response in preparation and everything it is made from
\* as they were, whether the message was delivered or not, and the response
\* returned is the one prepared before the send. Two runs that differ only
\* in the delivery therefore return the same status code and body; the
\* failed delivery raises nothing in the handler.
C23_DeliveryDoesNotMatter ==
  /\ [][pc = "notify" =>
          /\ pc' = "return"
          /\ ResponseState' = ResponseState
          /\ \E d \in BOOLEAN : telegram' = Append(telegram, Message(title, Warning(title), d))]_vars
  /\ [][pc = "return" => pc' = "done" /\ response' = pending /\ telegram' = telegram]_vars
  /\ [](Done /\ telegram # <<>> =>
          /\ response = pending
          /\ response.statusCode \in {200, 400, 500}
          /\ failures = (IF title \in HandlerTitles THEN 1 ELSE 0))

\* the success message of an order was not delivered: 200 all the same
C23_Witness ==
  /\ Done
  /\ Len(telegram) = 1 /\ ~telegram[1].delivered
  /\ telegram[1].title = "Trade"
  /\ response.statusCode = 200 /\ response.success
  /\ response.order_id = ORDER_ID

\* the same run with the message delivered
C23_Delivered ==
  /\ Done
  /\ Len(telegram) = 1 /\ telegram[1].delivered
  /\ telegram[1].title = "Trade"
  /\ response.statusCode = 200 /\ response.success
  /\ response.order_id = ORDER_ID

\* the body is a text that is not an object in JSON: not JSON at all, or
\* the JSON of a list, a number or a text
Malformed == event.kind \in {"bad_json", "json_array"}

\* C24: a request whose body is a text that is not valid JSON, or that
\* does not decode to a key-value object, is answered with status 400 and
\* success false, and no exchange call is made for it.
C24_MalformedIs400 ==
  Malformed =>
    /\ calls = <<>>
    /\ (Done /\ env_ok => response.statusCode = 400 /\ ~response.success)

\* what the code does: no exchange call and a failure for both, 400 for the
\* text that is not JSON only
C24_MalformedFails ==
  Malformed =>
    /\ calls = <<>>
    /\ (Done /\ env_ok =>
          /\ ~response.success
          /\ response.statusCode = (IF event.kind = "bad_json" THEN 400 ELSE 500))

\* the JSON of a list is answered as an internal error
C24_ListIs500 ==
  /\ Done /\ env_ok
  /\ event.kind = "json_array"
  /\ response.statusCode = 500

\* the extracted action is a text that is UPDATE when its case is folded
FoldsToUpdate ==
  /\ action.t = "str"
  /\ Len(action.s) = 6
  /\ \A i \in 1..6 : UpperChar(action.s[i]) = <<"U", "P", "D", "A", "T", "E">>[i]

\* the handler is past the selection of the primary action
Selected ==
  pc \in {"update_stops", "wallet", "instruments", "place_order", "order_stops",
          "executions"}
    \/ update_result # NoResult \/ order_result # NoResult \/ calls # <<>>

UpdatePath ==
  /\ pc \notin {"wallet", "instruments", "place_order", "order_stops", "executions"}
  /\ order_result = NoResult /\ position_size = None /\ quantity = None
  /\ Len(calls) <= 1
  /\ \A i \in 1..Len(calls) : calls[i].op = "set_trading_stop"

OrderPath ==
  /\ pc # "update_stops"
  /\ update_result = NoResult
  /\ \A i \in 1..Len(calls) :
       calls[i].op = "set_trading_stop" => i > 1 /\ OrderPlaced(i - 1)

Failing == pending.statusCode \in {400, 500}

\* C25: at most one of the two primary actions occurs, selected by the
\* action: when the action folds to UPDATE only the stop update is entered
\* (its one set_trading_stop call, no sizing, no order), for any other
\* action update_position_stops is never entered (the only set_trading_stop
\* is the one that follows the placed order); and a step that ends in a
\* failure goes straight to the notification and the response, after which
\* no exchange call is made and no result changes.
C25_OnePrimaryAction ==
  /\ [](Selected => IF FoldsToUpdate THEN UpdatePath ELSE OrderPath)
  /\ [][Failing' /\ ~Failing => pc' = "notify"]_vars
  /\ [][(pc \in {"return", "done"}) =>
          (/\ pc' = "done"
           /\ calls' = calls
           /\ update_result' = update_result /\ order_result' = order_result
           /\ pending' = pending)]_vars
  /\ [][pc = "notify" =>
          (/\ pc' = "return"
           /\ calls' = calls
           /\ update_result' = update_result /\ order_result' = order_result
           /\ pending' = pending)]_vars

\* an update spelled in mixed case made its call and nothing else
C25_Witness ==
  /\ Done
  /\ FoldsToUpdate /\ action.s # <<"U", "P", "D", "A", "T", "E">>
  /\ Len(calls) = 1 /\ calls[1].op = "set_trading_stop"
  /\ update_result.success /\ order_result = NoResult

\* an order failed at the exchange: no stop call, no read-back followed
C25_ShortCircuit ==
  /\ Done
  /\ ~FoldsToUpdate
  /\ Len(calls) = 1 /\ calls[1].op = "place_order" /\ calls[1].retCode # 0
  /\ response.statusCode = 500

\* lambda_handler has returned a structured response
Responded ==
  /\ Done
  /\ response.statusCode \in {200, 400, 500}
  /\ response.success = (response.statusCode = 200)

\* C26: every invocation eventually returns a response with a status code
\* and a success flag, on every path: whatever the payload, whatever the
\* exchange and the notification answer or raise, and whatever raises in the
\* handler itself; and once returned the response stays.
C26_EventuallyResponded == <>[]Responded

\* the order was placed, the stop call and the read-back both raised, and
\* the handler still returned its 200
C26_Witness ==
  /\ Responded
  /\ Len(calls) = 3
  /\ OrderPlaced(1)
  /\ calls[2].op = "set_trading_stop" /\ calls[2].raises
  /\ calls[3].op = "get_executions" /\ calls[3].raises
  /\ response.statusCode = 200

\* an exception in the handler after the order was placed: a response too
C26_AfterException ==
  /\ Responded
  /\ \E i \in 1..Len(calls) : OrderPlaced(i)
  /\ failures > 0
  /\ response.statusCode = 500

\* the quantity of the payload as a number, None when absent or unparsable
SuppliedQuantity == OptFloat(Given(QtyKeys))

\* absent, unparsable, zero or negative
Unusable == SuppliedQuantity = None \/ SuppliedQuantity.n <= 0

\* a Buy/Sell request the handler has answered
OrderAnswered == Done /\ Serving /\ OrderRequest

SizerCalls == CallsOf("get_wallet_balance") \cup CallsOf("get_instruments_info")

\* the supplied quantity went into the order, no balance or instrument call
UsedAsSupplied ==
  /\ SizerCalls = {}
  /\ quantity = SuppliedQuantity
  /\ Len(calls) >= 1
  /\ calls[1].op = "place_order" /\ calls[1].qty = FormatDecimal(SuppliedQuantity.n)

\* C27: for a Buy/Sell request the sizer runs exactly when the supplied
\* quantity is absent, unparsable, zero or negative; a positive quantity is
\* used for the order with no balance or instrument call, whatever the price.
C27_SizerIffNoQuantity ==
  OrderAnswered =>
    /\ (CallsOf("get_wallet_balance") # {}) = Unusable
    /\ (~Unusable => UsedAsSupplied)

\* C27 as the code has it: the sizer runs only when the quantity is absent,
\* unparsable, zero or negative, and then exactly when the price is supplied
\* and is a number (otherwise the request is answered 400 with no call);
\* get_wallet_balance is its first call and get_instruments_info follows only
\* a balance with positive equity; a positive quantity is used for the order
\* with no balance or instrument call, whatever the price.
C27_SizerIffNoQuantityAndPrice ==
  OrderAnswered =>
    /\ (CallsOf("get_wallet_balance") # {}) = (Unusable /\ PriceError(Given(PriceKeys)) = "")
    /\ (Unusable /\ PriceError(Given(PriceKeys)) # "" =>
          calls = <<>> /\ response.statusCode = 400)
    /\ CallsOf("get_wallet_balance") \subseteq {1}
    /\ CallsOf("get_instruments_info") \subseteq {2}
    /\ (CallsOf("get_instruments_info") # {} =>
          1 \in CallsOf("get_wallet_balance") /\ position_size # None)
    /\ (~Unusable => UsedAsSupplied)

\* a negative quantity with a price: the sizer ran and its quantity was ordered
C27_Witness ==
  /\ OrderAnswered
  /\ SuppliedQuantity # None /\ SuppliedQuantity.n < 0
  /\ Len(calls) >= 3
  /\ calls[1].op = "get_wallet_balance" /\ calls[2].op = "get_instruments_info"
  /\ OrderPlaced(3)

\* a positive quantity and a price: no sizer call
C27_PositiveWithPrice ==
  /\ OrderAnswered
  /\ ~Unusable /\ Truthy(Given(PriceKeys))
  /\ OrderPlaced(1)

\* no quantity and no price: the sizer did not run
C27_NoPriceNoSizer ==
  /\ OrderAnswered
  /\ Unusable /\ Given(PriceKeys) = None
  /\ calls = <<>> /\ response.statusCode = 400

\* the place of an exchange call in the order of a Buy/Sell request
Rank(op) ==
  CASE op = "get_wallet_balance" -> 1
    [] op = "get_instruments_info" -> 2
    [] op = "place_order" -> 3
    [] op = "set_trading_stop" -> 4
    [] op = "get_executions" -> 5
    [] OTHER -> 0

\* C28: within a Buy/Sell request the exchange calls come in the order
\* get_wallet_balance, get_instruments_info, place_order, set_trading_stop,
\* get_executions, each at most once; set_trading_stop and get_executions
\* come only after a place_order that returned code 0; and once the order is
\* placed and the stop step is over (its call returned 0, returned an error,
\* raised, or was not made), get_executions has been called, as the last call.
C28_CallOrder ==
  ~FoldsToUpdate =>
    /\ \A i \in 1..Len(calls) : Rank(calls[i].op) > 0
    /\ \A i, j \in 1..Len(calls) : i < j => Rank(calls[i].op) < Rank(calls[j].op)
    /\ \A i \in 1..Len(calls) :
         Rank(calls[i].op) > 3 => \E j \in 1..(i - 1) : OrderPlaced(j)
    /\ (pc \in {"notify", "return", "done"} /\ (\E j \in 1..Len(calls) : OrderPlaced(j))
          => calls[Len(calls)].op = "get_executions")

\* all five calls were made, the stop call failed, the read-back came last
C28_Witness ==
  /\ Done /\ ~FoldsToUpdate
  /\ Len(calls) = 5
  /\ calls[4].op = "set_trading_stop" /\ (calls[4].raises \/ calls[4].retCode # 0)
  /\ calls[5].op = "get_executions"

\* the stop step was skipped, the read-back was made all the same
C28_StopsSkipped ==
  /\ Done /\ ~FoldsToUpdate
  /\ Len(calls) = 2
  /\ OrderPlaced(1) /\ calls[2].op = "get_executions"

\* the text of a decimal that is greater than zero: no sign, a digit that
\* is not 0
DenotesPositive(str) ==
  /\ str # <<>>
  /\ str[1] # "-"
  /\ \E i \in 1..Len(str) : str[i] \in {"1", "2", "3", "4", "5", "6", "7", "8", "9"}

\* C29: every place_order call carries a qty text that denotes a decimal
\* greater than zero, whether the quantity was supplied or sized.
C29_QtyPositive ==
  \A i \in 1..Len(calls) :
     calls[i].op = "place_order" => DenotesPositive(calls[i].qty)

\* what holds: the quantity handed to execute_bybit_order is greater than
\* zero, and the text is its four-decimal rounding, never negative
C29_QuantityPositive ==
  \A i \in 1..Len(calls) :
     calls[i].op = "place_order" =>
       /\ quantity # None /\ quantity.n > 0
       /\ calls[i].qty = FormatDecimal(quantity.n)
       /\ calls[i].qty[1] # "-"

\* a supplied quantity below half of the fourth decimal was ordered as "0"
C29_ZeroOrdered ==
  /\ Done
  /\ Len(calls) >= 1
  /\ OrderPlaced(1) /\ calls[1].qty = <<"0">>
  /\ quantity.n > 0
  /\ response.statusCode = 200

\* a Buy/Sell request that relies on sizing: no usable quantity supplied
ReliesOnSizing == OrderRequest /\ Unusable

\* the entry price of the payload is a number greater than zero
PricePositive ==
  /\ Truthy(Given(PriceKeys))
  /\ Float(Given(PriceKeys)).ok
  /\ Float(Given(PriceKeys)).n > 0

\* C30: a Buy/Sell request that relies on sizing leads to a place_order call
\* only when the supplied price is a number greater than zero: with a zero
\* or negative price no order is placed and the request fails, whatever the
\* equity and the constraints of the instrument.
C30_OrderOnlyAtPositivePrice ==
  ReliesOnSizing /\ ~PricePositive =>
    /\ CallsOf("place_order") = {}
    /\ (Done => ~response.success)

\* what holds: with a negative price the order is placed only with the
\* quantity the lot filter's minimum lifted above zero
C30_NegativePriceOrdersMinimum ==
  ReliesOnSizing /\ ~PricePositive /\ CallsOf("place_order") # {} =>
    /\ Float(Given(PriceKeys)).n < 0
    /\ position_size.n < 0
    /\ Len(calls) >= 3 /\ ConstraintsAvailable(2)
    /\ quantity = Num(MinQty(2)) /\ MinQty(2) > 0

\* a negative price, a positive balance and a positive minimum: order placed
C30_NegativePriceOrdered ==
  /\ Done
  /\ ReliesOnSizing
  /\ Float(Given(PriceKeys)).n < 0
  /\ Len(calls) >= 3 /\ OrderPlaced(3)
  /\ response.statusCode = 200

====
